---- MODULE Spec2Model ----
(***************************************************************************)
(* Email_to_Notion: the SQLite dedup store (src/src/storage.py), the       *)
(* pipeline coordinator (src/src/main.py) and the Notion sink's bounded    *)
(* retry (src/src/notion_writer.py), as a state machine.                   *)
(*                                                                         *)
(* Every Python value that may be None is a tuple here, so that None       *)
(* (the empty tuple) compares with every value: a message id is <<"m1">>,  *)
(* an instant <<"t", n>>, a Notion page id <<"page", n>>, a text column    *)
(* <<column, variant>>.                                                    *)
(***************************************************************************)
EXTENDS Integers, Sequences, FiniteSets

VARIABLES
    store,      \* the rows of table emails of emails.db, in insertion order
    lastOp,     \* the last storage.py call made directly on the store
    proc,       \* per coordinator process: where main() is and its locals
    pages,      \* the pages of the Notion database, in creation order
    runs,       \* how many times main() has been started
    sinkCalls,  \* history: per message id, the calls of create_email_page
    inserts,    \* history: per message id, the INSERTs that added a row
    gap,        \* history: ids whose run stopped between save and sink call
    snap,       \* history: the table as it was when a run last stopped, or None
    mailbox,    \* the messages a resumed run fetches again
    call        \* the library function being applied, its arguments and locals

\* Python None, SQL NULL
None == <<>>

---------------------------------------------------------------------------
(* Bounds of the model *)

\* rows the table may hold when store operations are called directly
MaxRows == 2

\* runs of main() in one behaviour
MaxRuns == 2

\* messages one fetch returns (--limit)
MaxBatch == 2

\* unread messages in the mailbox two concurrent runs fetch
MaxShared == 1

\* the window length chunk_text cuts with; it stands for the default
\* max_chars=3000, which summarize uses
MaxChars == 4

\* the longest text chunk_text is applied to
MaxText == 9

\* the longest body summarize is applied to
MaxBody == 6

\* the largest max_length summarize is called with
MaxLength == 2

\* parts of a multipart message, the container aside
MaxParts == 3

\* pieces a From header or a body text is put together from
MaxPieces == 5

\* extracted dates handed to get_primary_deadline
MaxDates == 2

\* the latest instant of the clock and of a parsed date
MaxInstant == 2

\* lines of a text handed to extract_action_items
MaxLines == 3

\* action items kept (stands for the 10 of the source)
ActionCap == 2

\* candidates the pattern pass, and the sentence pass, of extract_dates find
MaxMatches == 2

\* dates kept (stands for the 5 of the source)
DateCap == 2

\* the length of the joined chunk summaries above which summarize makes one
\* more pass; it stands for the 2000 of len(combined) > 2000
CombinedLimit == 5

---------------------------------------------------------------------------
(* Program constants *)

\* _retry_with_backoff(self, func, max_retries: int = 3, ...)
max_retries == 3

\* _retry_with_backoff(self, func, ..., base_delay: float = 1.0)
base_delay == 1

---------------------------------------------------------------------------
(* Value domains *)

MsgIds == {<<"m1">>, <<"m2">>}

\* two different contents a message may have
Raws == {"a", "b"}

\* readings of datetime.utcnow()
Times == {<<"t", 1>>, <<"t", 2>>}

PageIds == {<<"page", 1>>, <<"page", 2>>}

\* the nine text columns main.py fills from the parsed message
ContentCols ==
    {"subject", "sender", "date", "summary", "body", "links",
     "deadline", "action_items", "ner_summary"}

Cols == ContentCols \cup {"message_id", "processed_at", "notion_page_id"}

---------------------------------------------------------------------------
(* storage.py *)

\* The dict passed to save_email: record.get(k) is None for a missing key.
MkRecord(m, v, t, n) ==
    [message_id |-> m,
     subject |-> <<"subject", v>>, sender |-> <<"sender", v>>,
     date |-> <<"date", v>>, summary |-> <<"summary", v>>,
     body |-> <<"body", v>>, links |-> <<"links", v>>,
     processed_at |-> t, notion_page_id |-> n,
     deadline |-> <<"deadline", v>>,
     action_items |-> <<"action_items", v>>,
     ner_summary |-> <<"ner_summary", v>>]

\* indexes of the rows WHERE message_id = m; in SQL, NULL = NULL is not true
RowsOf(db, m) ==
    {k \in 1..Len(db) : m # None /\ db[k].message_id = m}

\* an existence check that never finds the row
is_processed_never(db, m) == FALSE

\* is_processed: SELECT 1 FROM emails WHERE message_id = ? ... row is not None
is_processed(db, m) == RowsOf(db, m) # {}

\* the row INSERT builds: id INTEGER PRIMARY KEY AUTOINCREMENT, and
\* record.get('processed_at') or datetime.utcnow().isoformat()
NewRow(db, rec, now) ==
    [id |-> Len(db) + 1,
     message_id |-> rec.message_id,
     subject |-> rec.subject, sender |-> rec.sender, date |-> rec.date,
     summary |-> rec.summary, body |-> rec.body, links |-> rec.links,
     processed_at |-> IF rec.processed_at = None THEN now ELSE rec.processed_at,
     notion_page_id |-> rec.notion_page_id,
     deadline |-> rec.deadline, action_items |-> rec.action_items,
     ner_summary |-> rec.ner_summary]

\* INSERT OR REPLACE in place of INSERT OR IGNORE
InsertOrReplace(db, rec, now) ==
    IF RowsOf(db, rec.message_id) # {}
    THEN [k \in 1..Len(db) |->
            IF k \in RowsOf(db, rec.message_id)
            THEN [NewRow(db, rec, now) EXCEPT !.id = db[k].id]
            ELSE db[k]]
    ELSE Append(db, NewRow(db, rec, now))

\* save_email: INSERT OR IGNORE against message_id TEXT UNIQUE. A UNIQUE
\* column admits any number of NULLs, so a record without message_id is
\* always inserted.
InsertOrIgnore(db, rec, now) ==
    IF RowsOf(db, rec.message_id) # {}
    THEN db
    ELSE Append(db, NewRow(db, rec, now))

\* INSERT OR REPLACE INTO emails (message_id, notion_page_id) in place of the
\* UPDATE: the replaced row loses its other columns
UpdateByReplace(db, m, pid) ==
    [k \in 1..Len(db) |->
        IF k \in RowsOf(db, m)
        THEN [c \in DOMAIN db[k] |->
                IF c = "notion_page_id" THEN pid
                ELSE IF c \in {"id", "message_id"} THEN db[k][c]
                ELSE None]
        ELSE db[k]]

\* the UPDATE without its WHERE clause
UpdateAllRows(db, m, pid) ==
    [k \in 1..Len(db) |-> [db[k] EXCEPT !.notion_page_id = pid]]

\* update_notion_page_id: UPDATE emails SET notion_page_id = ? WHERE message_id = ?
UpdateNotionPageId(db, m, pid) ==
    [k \in 1..Len(db) |->
        IF k \in RowsOf(db, m)
        THEN [db[k] EXCEPT !.notion_page_id = pid]
        ELSE db[k]]

\* mark_processed: UPDATE emails SET processed_at = ? WHERE message_id = ?
MarkProcessed(db, m, now) ==
    [k \in 1..Len(db) |->
        IF k \in RowsOf(db, m)
        THEN [db[k] EXCEPT !.processed_at = now]
        ELSE db[k]]

\* get_notion_page_id: row[0] if row and row[0] else None
get_notion_page_id(db, m) ==
    IF RowsOf(db, m) = {}
    THEN None
    ELSE db[CHOOSE k \in RowsOf(db, m) : TRUE].notion_page_id

\* the stored row of m, None when there is none
RowFor(db, m) ==
    IF RowsOf(db, m) = {} THEN None ELSE db[CHOOSE k \in RowsOf(db, m) : TRUE]

---------------------------------------------------------------------------
(* notion_writer.py: _retry_with_backoff *)

\* what one call of func() may answer: a result, APIResponseError with status
\* 429, APIResponseError with another status, any other Exception
Responses == {"ok", "rate_limited", "api_error", "exception"}

\* a retry that also follows the last attempt
RetryAgainAlways(attempt) == attempt < max_retries

\* if attempt < max_retries - 1
RetryAgain(attempt) == attempt < max_retries - 1

\* delay = base_delay * (2 ** attempt)
BackoffDelay(attempt) == base_delay * (2 ^ attempt)

\* a handler that retries on every APIResponseError
IsRateLimitedAnyApiError(resp) == resp \in {"rate_limited", "api_error"}

\* except APIResponseError as e: if e.status == 429
IsRateLimited(resp) == resp = "rate_limited"

---------------------------------------------------------------------------
(* main.py: the coordinator *)

\* coordinator processes; run_scheduler.py starts main() one run at a time
Procs == {1, 2}

SeqProcs == {1}

\* the ids of the batches a fetch may return; None is a message without id
Batches == UNION {[1..n -> MsgIds \cup {None}] : n \in 0..MaxBatch}

\* the list fetch_unread returns: one dict per message
Fetched(ids) ==
    [k \in DOMAIN ids |-> [message_id |-> ids[k], raw_bytes |-> "a"]]

\* the locals of main() before it runs
IdleProc ==
    [pc |-> "idle", run |-> 0,
     dry_run |-> FALSE, notion |-> FALSE, notion_writer |-> FALSE,
     emails |-> <<>>, i |-> 0,
     processed_count |-> 0, skipped_count |-> 0, notion_count |-> 0,
     record |-> None, notion_page_id |-> None,
     attempt |-> 0, slept |-> <<>>, responses |-> <<>>,
     raised |-> FALSE, result |-> None,
     reported |-> {},
     failed |-> FALSE, dup |-> {}, worked |-> {}, base |-> None]

\* the pc values at which main() is running
Running ==
    {"loop", "check", "parse", "summarize", "extract", "deadline", "save",
     "notion", "attempt", "returned", "writeback", "report"}

\* email_data.get('message_id') of the message whose turn it is
message_id(p) == proc[p].emails[proc[p].i].message_id

\* datetime.utcnow() during run r
NowOf(p) == <<"t", proc[p].run>>

\* the next iteration of for i, email_data in enumerate(emails, 1)
Continue(l) ==
    [l EXCEPT !.pc = "loop", !.i = @ + 1,
              !.record = None, !.notion_page_id = None]

\* processed_count += 1 at the end of the try block
Completed(l) == Continue([l EXCEPT !.processed_count = @ + 1])

\* except Exception as e: logger.error(...); continue
Caught(l) == Continue([l EXCEPT !.failed = TRUE])

\* a save that is skipped in live runs instead of dry runs
AfterRecordInverted(l) == IF l.dry_run THEN "save" ELSE "notion"

\* if not args.dry_run: save_email(record)
AfterRecord(l) == IF l.dry_run THEN "notion" ELSE "save"

\* the counts the summary prints; Notion pages only if notion_writer
Reported(l) ==
    {"fetched", "skipped", "processed"}
        \cup (IF l.notion_writer THEN {"notion"} ELSE {})

histVars == <<sinkCalls, inserts, gap, snap>>

\* no library function is being applied on its own
NoCall == [fn |-> "none"]

\* main() up to the loop: arguments, init_notion_writer, the fetch. A fetch
\* that fails or returns nothing makes main() return at once.
StartRun(p, dry, notion, writer, ids) ==
    /\ proc[p].pc = "idle"
    /\ runs < MaxRuns
    /\ writer => notion
    /\ runs' = runs + 1
    /\ proc' = [proc EXCEPT ![p] =
          [IdleProc EXCEPT
              !.pc = IF ids = <<>> THEN "done" ELSE "loop",
              !.run = runs + 1,
              !.dry_run = dry, !.notion = notion, !.notion_writer = writer,
              !.emails = Fetched(ids), !.i = 1]]
    /\ UNCHANGED <<store, lastOp, pages, histVars>>

\* main() has returned, or an exception has left it: the process is gone
Exit(p) ==
    /\ proc[p].pc \in {"done", "aborted"}
    /\ proc' = [proc EXCEPT ![p] = IdleProc]
    /\ UNCHANGED <<store, lastOp, pages, runs, histVars, mailbox, call>>

\* the loop header: the end of the batch, a message with no message_id
\* (continue), or the next message to check
ForEach(p) ==
    /\ proc[p].pc = "loop"
    /\ proc' = [proc EXCEPT ![p] =
          IF proc[p].i > Len(proc[p].emails)
          THEN [proc[p] EXCEPT !.pc = "report"]
          ELSE IF message_id(p) = None
          THEN [proc[p] EXCEPT !.i = @ + 1]
          ELSE [proc[p] EXCEPT !.pc = "check",
                         !.dup = IF RowsOf(store, message_id(p)) # {}
                                 THEN @ \cup {proc[p].i} ELSE @]]
    /\ UNCHANGED <<store, lastOp, pages, runs, histVars, mailbox, call>>

\* if is_processed(message_id): skipped_count += 1; continue
CheckProcessed(p) ==
    /\ proc[p].pc = "check"
    /\ proc' = [proc EXCEPT ![p] =
          IF is_processed(store, message_id(p))
          THEN Continue([proc[p] EXCEPT !.skipped_count = @ + 1])
          ELSE [proc[p] EXCEPT !.pc = "parse"]]
    /\ UNCHANGED <<store, lastOp, pages, runs, histVars, mailbox, call>>

\* is_processed raises (sqlite3 cannot open or read emails.db): the call is
\* outside the try block, so the exception leaves main()
CheckRaises(p) ==
    /\ proc[p].pc = "check"
    /\ proc' = [proc EXCEPT ![p].pc = "aborted"]
    /\ UNCHANGED <<store, lastOp, pages, runs, histVars, mailbox, call>>

\* parse_email(raw_bytes)
ParseEmail(p) ==
    /\ proc[p].pc = "parse"
    /\ proc' = [proc EXCEPT ![p].pc = "summarize",
                            ![p].worked = @ \cup {proc[p].i}]
    /\ UNCHANGED <<store, lastOp, pages, runs, histVars, mailbox, call>>

\* parse_email or subject[:60] raises
ParseRaises(p) ==
    /\ proc[p].pc = "parse"
    /\ proc' = [proc EXCEPT ![p] =
          Caught([proc[p] EXCEPT !.worked = @ \cup {proc[p].i}])]
    /\ UNCHANGED <<store, lastOp, pages, runs, histVars, mailbox, call>>

\* summarizer.summarize(body_text, max_length=120), which catches the
\* engine's failures itself
Summarize(p) ==
    /\ proc[p].pc = "summarize"
    /\ proc' = [proc EXCEPT ![p].pc = "extract"]
    /\ UNCHANGED <<store, lastOp, pages, runs, histVars, mailbox, call>>

\* extract_ner_data(body_text), which catches its own failures
ExtractNer(p) ==
    /\ proc[p].pc = "extract"
    /\ proc' = [proc EXCEPT ![p].pc = "deadline"]
    /\ UNCHANGED <<store, lastOp, pages, runs, histVars, mailbox, call>>

\* get_primary_deadline(...) and the record dict; the dict has no
\* notion_page_id key
SelectDeadline(p) ==
    /\ proc[p].pc = "deadline"
    /\ proc' = [proc EXCEPT ![p] =
          [proc[p] EXCEPT
              !.pc = AfterRecord(proc[p]),
              !.record = MkRecord(message_id(p),
                                  proc[p].emails[proc[p].i].raw_bytes,
                                  NowOf(p), None)]]
    /\ UNCHANGED <<store, lastOp, pages, runs, histVars, mailbox, call>>

\* get_primary_deadline or parse_date raises
DeadlineRaises(p) ==
    /\ proc[p].pc = "deadline"
    /\ proc' = [proc EXCEPT ![p] = Caught(proc[p])]
    /\ UNCHANGED <<store, lastOp, pages, runs, histVars, mailbox, call>>

\* save_email(record)
SaveEmail(p) ==
    /\ proc[p].pc = "save"
    /\ store' = InsertOrIgnore(store, proc[p].record, NowOf(p))
    /\ inserts' = [inserts EXCEPT ![message_id(p)] =
                      IF Len(store') > Len(store) THEN @ + 1 ELSE @]
    /\ proc' = [proc EXCEPT ![p].pc = "notion"]
    /\ UNCHANGED <<lastOp, pages, runs, sinkCalls, gap, snap, mailbox, call>>

\* save_email raises (sqlite3.OperationalError)
SaveRaises(p) ==
    /\ proc[p].pc = "save"
    /\ proc' = [proc EXCEPT ![p] = Caught(proc[p])]
    /\ UNCHANGED <<store, lastOp, pages, runs, histVars, mailbox, call>>

\* if args.notion: if args.dry_run: create_email_page_dry_run(record)
NotionDryRun(p) ==
    /\ proc[p].pc = "notion"
    /\ proc[p].notion /\ proc[p].dry_run
    /\ proc' = [proc EXCEPT ![p] = Completed(proc[p])]
    /\ UNCHANGED <<store, lastOp, pages, runs, histVars, mailbox, call>>

\* no --notion, or a live run whose notion_writer is None
NotionSkip(p) ==
    /\ proc[p].pc = "notion"
    /\ ~proc[p].notion \/ (~proc[p].dry_run /\ ~proc[p].notion_writer)
    /\ proc' = [proc EXCEPT ![p] = Completed(proc[p])]
    /\ UNCHANGED <<store, lastOp, pages, runs, histVars, mailbox, call>>

\* notion_writer.create_email_page(record), up to _retry_with_backoff
CreateEmailPage(p) ==
    /\ proc[p].pc = "notion"
    /\ proc[p].notion /\ ~proc[p].dry_run /\ proc[p].notion_writer
    /\ sinkCalls' = [sinkCalls EXCEPT ![message_id(p)] = @ + 1]
    /\ proc' = [proc EXCEPT ![p].pc = "attempt", ![p].attempt = 0]
    /\ UNCHANGED <<store, lastOp, pages, runs, inserts, gap, snap, mailbox, call>>

\* one iteration of for attempt in range(max_retries): func() answers resp.
\* A loop that runs out of attempts falls off the end and returns None.
RetryAttempt(p, resp) ==
    /\ proc[p].pc = "attempt"
    /\ pages' = IF resp = "ok"
                THEN Append(pages, [id |-> <<"page", Len(pages) + 1>>,
                                    message_id |-> message_id(p)])
                ELSE pages
    /\ proc' = [proc EXCEPT ![p] =
          LET l == [proc[p] EXCEPT !.responses = Append(@, resp)] IN
          IF resp = "ok"
          THEN [l EXCEPT !.pc = "returned",
                         !.result = <<"page", Len(pages) + 1>>]
          ELSE IF IsRateLimited(resp) /\ RetryAgain(l.attempt)
          THEN [l EXCEPT !.slept = Append(@, BackoffDelay(l.attempt)),
                         !.attempt = @ + 1,
                         !.pc = IF l.attempt + 1 < max_retries
                                THEN "attempt" ELSE "returned"]
          ELSE [l EXCEPT !.pc = "returned", !.raised = TRUE]]
    /\ UNCHANGED <<store, lastOp, runs, histVars, mailbox, call>>

\* the end of create_email_page: page_id = result.get('id'), or None from
\* except Exception; then main's if notion_page_id
CreatePageReturn(p) ==
    /\ proc[p].pc = "returned"
    /\ proc' = [proc EXCEPT ![p] =
          LET l == [proc[p] EXCEPT !.attempt = 0, !.slept = <<>>,
                                   !.responses = <<>>, !.raised = FALSE,
                                   !.result = None] IN
          IF proc[p].raised \/ proc[p].result = None
          THEN Completed(l)
          ELSE [l EXCEPT !.pc = "writeback", !.notion_page_id = proc[p].result]]
    /\ UNCHANGED <<store, lastOp, pages, runs, histVars, mailbox, call>>

\* update_notion_page_id(message_id, notion_page_id); notion_count += 1
WriteBack(p) ==
    /\ proc[p].pc = "writeback"
    /\ store' = UpdateNotionPageId(store, message_id(p), proc[p].notion_page_id)
    /\ proc' = [proc EXCEPT ![p] =
          Completed([proc[p] EXCEPT !.notion_count = @ + 1])]
    /\ UNCHANGED <<lastOp, pages, runs, histVars, mailbox, call>>

\* update_notion_page_id raises
WriteBackRaises(p) ==
    /\ proc[p].pc = "writeback"
    /\ proc' = [proc EXCEPT ![p] = Caught(proc[p])]
    /\ UNCHANGED <<store, lastOp, pages, runs, histVars, mailbox, call>>

\* the summary after the loop
Report(p) ==
    /\ proc[p].pc = "report"
    /\ proc' = [proc EXCEPT ![p].pc = "done", ![p].reported = Reported(proc[p])]
    /\ UNCHANGED <<store, lastOp, pages, runs, histVars, mailbox, call>>

\* the run has saved the record of its current message and is about to call
\* the sink for it
BeforeSinkCall(l) ==
    l.pc = "notion" /\ l.notion /\ ~l.dry_run /\ l.notion_writer

\* the process is terminated (a kill, a power loss) wherever it is
Stop(p) ==
    /\ proc[p].pc \in Running
    /\ proc' = [proc EXCEPT ![p] = IdleProc]
    /\ gap' = IF BeforeSinkCall(proc[p]) THEN gap \cup {message_id(p)} ELSE gap
    /\ snap' = [table |-> store]
    /\ UNCHANGED <<store, lastOp, pages, runs, sinkCalls, inserts, mailbox, call>>

\* one step of a run of main() that nothing interrupts
Run(p) ==
    \/ ForEach(p)
    \/ CheckProcessed(p)
    \/ CheckRaises(p)
    \/ ParseEmail(p)
    \/ ParseRaises(p)
    \/ Summarize(p)
    \/ ExtractNer(p)
    \/ SelectDeadline(p)
    \/ DeadlineRaises(p)
    \/ SaveEmail(p)
    \/ SaveRaises(p)
    \/ NotionDryRun(p)
    \/ NotionSkip(p)
    \/ CreateEmailPage(p)
    \/ \E resp \in Responses : RetryAttempt(p, resp)
    \/ CreatePageReturn(p)
    \/ WriteBack(p)
    \/ WriteBackRaises(p)
    \/ Report(p)
    \/ Exit(p)

\* one step of a run of main(), or its termination
Step(p) == Run(p) \/ Stop(p)

\* a run over whatever the mail source returns
FetchAny(p) ==
    /\ proc[p].pc = "idle"
    /\ \E dry \in BOOLEAN, notion \in BOOLEAN, writer \in BOOLEAN, ids \in Batches :
          StartRun(p, dry, notion, writer, ids)
    /\ UNCHANGED <<mailbox, call>>

\* a run over the messages the first run fetched: nothing marks them read
FetchSame(p) ==
    /\ proc[p].pc = "idle"
    /\ \E dry \in BOOLEAN, notion \in BOOLEAN, writer \in BOOLEAN :
          \E ids \in IF runs = 0 THEN Batches ELSE {mailbox} :
              /\ StartRun(p, dry, notion, writer, ids)
              /\ mailbox' = ids
    /\ UNCHANGED call

\* main() has returned and is started again, live, on the batch it has just
\* gone through; base keeps how the first run was made and ended and what
\* the store and the histories were when the second began
Rerun(p) ==
    /\ proc[p].pc = "done"
    /\ proc[p].base = None
    /\ runs < MaxRuns
    /\ runs' = runs + 1
    /\ \E notion \in BOOLEAN, writer \in BOOLEAN :
          /\ writer => notion
          /\ proc' = [proc EXCEPT ![p] =
                [IdleProc EXCEPT
                    !.pc = IF proc[p].emails = <<>> THEN "done" ELSE "loop",
                    !.run = runs + 1,
                    !.dry_run = FALSE, !.notion = notion,
                    !.notion_writer = writer,
                    !.emails = proc[p].emails, !.i = 1,
                    !.base = <<[dry_run |-> proc[p].dry_run,
                                failed |-> proc[p].failed,
                                store |-> store, inserts |-> inserts,
                                sinkCalls |-> sinkCalls]>>]]
    /\ UNCHANGED <<store, lastOp, pages, histVars, mailbox, call>>

\* the unread messages two concurrent runs may find
SharedBatches == UNION {[1..n -> MsgIds \cup {None}] : n \in 0..MaxShared}

\* a run started while another may be running, two runs in all: both fetch
\* the same unread messages, and both find the Notion credentials in .env
FetchShared(p) ==
    /\ proc[p].pc = "idle"
    /\ runs < Cardinality(Procs)
    /\ \E dry \in BOOLEAN, notion \in BOOLEAN :
          \E ids \in IF runs = 0 THEN SharedBatches ELSE {mailbox} :
              /\ StartRun(p, dry, notion, notion, ids)
              /\ mailbox' = ids
    /\ UNCHANGED call

---------------------------------------------------------------------------
(* The store called directly: any sequence of storage.py calls *)

\* the dicts save_email is called with; main.py never sets notion_page_id
Records ==
    {MkRecord(m, v, t, None) :
        m \in MsgIds \cup {None}, v \in Raws, t \in Times \cup {None}}

Op(name, m, db) == [op |-> name, message_id |-> m, before |-> RowFor(db, m)]

coordVars == <<proc, pages, runs, sinkCalls, inserts, gap, snap, mailbox, call>>

save_email(rec, now) ==
    /\ Len(store) < MaxRows \/ RowsOf(store, rec.message_id) # {}
    /\ store' = InsertOrIgnore(store, rec, now)
    /\ lastOp' = Op("save_email", rec.message_id, store)
    /\ UNCHANGED coordVars

update_notion_page_id(m, pid) ==
    /\ store' = UpdateNotionPageId(store, m, pid)
    /\ lastOp' = Op("update_notion_page_id", m, store)
    /\ UNCHANGED coordVars

mark_processed(m, now) ==
    /\ store' = MarkProcessed(store, m, now)
    /\ lastOp' = Op("mark_processed", m, store)
    /\ UNCHANGED coordVars

\* utcnow() is read only for a record without processed_at
StoreSave ==
    \E rec \in Records :
        \E now \in IF rec.processed_at = None THEN Times ELSE {rec.processed_at} :
            save_email(rec, now)

StoreUpdate ==
    \E m \in MsgIds \cup {None}, pid \in PageIds : update_notion_page_id(m, pid)

StoreMark == \E m \in MsgIds \cup {None}, now \in Times : mark_processed(m, now)

---------------------------------------------------------------------------
(* Specifications *)

vars == <<store, lastOp, proc, pages, runs, sinkCalls, inserts, gap, snap, mailbox, call>>

\* an empty emails.db, an empty Notion database, no run started
Init ==
    /\ store = <<>>
    /\ lastOp = [op |-> "none", message_id |-> None, before |-> None]
    /\ proc = [p \in Procs |-> IdleProc]
    /\ pages = <<>>
    /\ runs = 0
    /\ sinkCalls = [m \in MsgIds |-> 0]
    /\ inserts = [m \in MsgIds |-> 0]
    /\ gap = {}
    /\ snap = None
    /\ mailbox = <<>>
    /\ call = NoCall

\* sequential runs of main(), each over any batch, each stoppable anywhere
Next == \E p \in SeqProcs : FetchAny(p) \/ Step(p)

Spec == Init /\ [][Next]_vars

\* sequential runs of main() that all fetch the same messages
NextResume == \E p \in SeqProcs : FetchSame(p) \/ Step(p)

SpecResume == Init /\ [][NextResume]_vars

\* two processes run main() at the same time over the same unread messages (a
\* scheduled run and one started by hand): their steps interleave, and each
\* storage.py call is one transaction of its own
NextConcurrent == \E p \in Procs : FetchShared(p) \/ Run(p)

SpecConcurrent == Init /\ [][NextConcurrent]_vars

\* storage.py called directly, in any order, with any arguments
\* a first run over any batch, and a second one over the same batch
NextRerun == \E p \in SeqProcs : FetchSame(p) \/ Run(p) \/ Rerun(p)

SpecRerun == Init /\ [][NextRerun]_vars

NextStore == StoreSave \/ StoreUpdate \/ StoreMark

SpecStore == Init /\ [][NextStore]_vars

---------------------------------------------------------------------------
(* Library functions applied on their own: main() is not running *)

\* the store and the coordinator, which a library function never touches
progVars ==
    <<store, lastOp, proc, pages, runs, sinkCalls, inserts, gap, snap, mailbox>>

\* an empty emails.db and no run of main()
Quiet ==
    /\ store = <<>>
    /\ lastOp = [op |-> "none", message_id |-> None, before |-> None]
    /\ proc = [p \in Procs |-> IdleProc]
    /\ pages = <<>>
    /\ runs = 0
    /\ sinkCalls = [m \in MsgIds |-> 0]
    /\ inserts = [m \in MsgIds |-> 0]
    /\ gap = {}
    /\ snap = None
    /\ mailbox = <<>>

---------------------------------------------------------------------------
(* Python str: a text is the sequence of its characters *)

\* a letter, a sentence-ending period, a blank
Char == {"a", ".", " "}

\* str.strip() removes these from both ends
IsSpace(c) == c \in {" ", "\n"}

Min(S) == CHOOSE x \in S : \A y \in S : x <= y

Max(S) == CHOOSE x \in S : \A y \in S : y <= x

\* s.strip()
Strip(s) ==
    LET ns == {k \in 1..Len(s) : ~IsSpace(s[k])} IN
    IF ns = {} THEN <<>> ELSE SubSeq(s, Min(ns), Max(ns))

\* s[a:b] for 0 <= a <= b <= len(s)
Slice(s, a, b) == SubSeq(s, a + 1, b)

\* s[:n]
Prefix(s, n) == SubSeq(s, 1, IF n < Len(s) THEN n ELSE Len(s))

\* s.rfind(c): the 0-based index of the last c, -1 when there is none
rfind(s, c) ==
    LET ks == {k \in 1..Len(s) : s[k] = c} IN
    IF ks = {} THEN -1 ELSE Max(ks) - 1

\* the texts of at most n characters
TextsUpTo(n) == UNION {[1..k -> Char] : k \in 0..n}

---------------------------------------------------------------------------
(* summarizer.py: chunk_text *)

\* end = min(start + max_chars, len(text))
WindowEnd(text, start, max_chars) ==
    IF start + max_chars < Len(text) THEN start + max_chars ELSE Len(text)

\* a cut that never looks for a period
CutEndHard(text, start, max_chars) == WindowEnd(text, start, max_chars)

\* a cut that takes the rest of the text
CutEndWide(text, start, max_chars) == Len(text)

\* one iteration of the while loop: where the chunk that starts at start ends.
\* window = text[start:end]; last_period = window.rfind('.');
\* if last_period != -1 and (start + last_period + 1) < end: end = ...
CutEnd(text, start, max_chars) ==
    LET end == WindowEnd(text, start, max_chars)
        last_period == rfind(Slice(text, start, end), ".") IN
    IF last_period # -1 /\ start + last_period + 1 < end
    THEN start + last_period + 1
    ELSE end

\* the locals of chunk_text(text, max_chars) before its first statement
ChunkCall(text, max_chars) ==
    [fn |-> "chunk_text", arg |-> text, max_chars |-> max_chars,
     pc |-> "start", text |-> text, start |-> 0,
     cuts |-> <<>>, chunks |-> <<>>, result |-> None]

\* if not text: return [""]; text = text.strip();
\* if len(text) <= max_chars: return [text]
ChunkStart ==
    /\ call.fn = "chunk_text" /\ call.pc = "start"
    /\ call' =
          IF call.arg = <<>>
          THEN [call EXCEPT !.pc = "done", !.result = << <<>> >>]
          ELSE IF Len(Strip(call.arg)) <= call.max_chars
          THEN [call EXCEPT !.pc = "done", !.text = Strip(call.arg),
                            !.result = <<Strip(call.arg)>>]
          ELSE [call EXCEPT !.pc = "while", !.text = Strip(call.arg)]
    /\ UNCHANGED progVars

\* while start < len(text): one chunk is cut and appended; cuts keeps, for
\* every chunk, where its window and the chunk itself began and ended
ChunkLoop ==
    /\ call.fn = "chunk_text" /\ call.pc = "while"
    /\ call.start < Len(call.text)
    /\ LET end == CutEnd(call.text, call.start, call.max_chars) IN
       call' = [call EXCEPT
                  !.chunks = Append(@, Strip(Slice(call.text, call.start, end))),
                  !.cuts = Append(@,
                      [start |-> call.start,
                       window_end |-> WindowEnd(call.text, call.start,
                                                call.max_chars),
                       end |-> end]),
                  !.start = end]
    /\ UNCHANGED progVars

\* return [c for c in chunks if c]
ChunkReturn ==
    /\ call.fn = "chunk_text" /\ call.pc = "while"
    /\ ~(call.start < Len(call.text))
    /\ call' = [call EXCEPT !.pc = "done",
                            !.result = SelectSeq(call.chunks,
                                                 LAMBDA c : c # <<>>)]
    /\ UNCHANGED progVars

\* chunk_text applied to any text of at most MaxText characters
InitChunk ==
    /\ Quiet
    /\ call \in {ChunkCall(text, MaxChars) : text \in TextsUpTo(MaxText)}

NextChunk == ChunkStart \/ ChunkLoop \/ ChunkReturn

SpecChunk == InitChunk /\ [][NextChunk]_vars

\* chunk_text applied to any text with any max_chars from 1 to MaxChars; the
\* one caller, summarize, leaves max_chars at its default of 3000
InitChunkAny ==
    /\ Quiet
    /\ call \in {ChunkCall(text, max_chars) :
                    text \in TextsUpTo(MaxBody), max_chars \in 1..MaxChars}

\* the function runs on until it returns
SpecChunkAny == InitChunkAny /\ [][NextChunk]_vars /\ WF_vars(NextChunk)

---------------------------------------------------------------------------
(* summarizer.py: summarize *)

RECURSIVE CutFrom(_, _, _)
\* the chunks the while loop appends from position start on
CutFrom(text, start, max_chars) ==
    IF start < Len(text)
    THEN LET end == CutEnd(text, start, max_chars) IN
         <<Strip(Slice(text, start, end))>> \o CutFrom(text, end, max_chars)
    ELSE <<>>

\* chunk_text(text, max_chars) as one value
chunk_text(text, max_chars) ==
    IF text = <<>> THEN << <<>> >>
    ELSE IF Len(Strip(text)) <= max_chars THEN <<Strip(text)>>
    ELSE SelectSeq(CutFrom(Strip(text), 0, max_chars), LAMBDA c : c # <<>>)

RECURSIVE Join(_)
\* "\n".join(summaries)
Join(ss) ==
    IF ss = <<>> THEN <<>>
    ELSE IF Len(ss) = 1 THEN ss[1]
    ELSE ss[1] \o <<"\n">> \o Join(Tail(ss))

\* what self.pipe(...)[0]['summary_text'] may be when the engine answers
EngineOutputs == {<<"s">>, <<"s", "s", " ">>}

\* a fallback that keeps the whole chunk
FallbackWhole(chunk, max_length) == chunk

\* except Exception: summaries.append(chunk[:max_length])
Fallback(chunk, max_length) == Prefix(chunk, max_length)

\* the locals of summarize(text, max_length) before its first statement
SummarizeCall(text, max_length) ==
    [fn |-> "summarize", arg |-> text, max_length |-> max_length,
     pc |-> "start", chunks |-> <<>>, k |-> 1, summaries |-> <<>>,
     combined |-> None, piped |-> <<>>, failed |-> {}, again |-> FALSE,
     again_raised |-> FALSE, result |-> None]

\* if not text: return ""; chunks = self.chunk_text(text)
SummarizeStart ==
    /\ call.fn = "summarize" /\ call.pc = "start"
    /\ call' = IF call.arg = <<>>
               THEN [call EXCEPT !.pc = "done", !.result = <<>>]
               ELSE [call EXCEPT !.pc = "for",
                                 !.chunks = chunk_text(call.arg, MaxChars)]
    /\ UNCHANGED progVars

\* for chunk in chunks: the engine answers out;
\* summaries.append(out[0]['summary_text'].strip())
EngineAnswers(out) ==
    /\ call.fn = "summarize" /\ call.pc = "for"
    /\ call.k <= Len(call.chunks)
    /\ call' = [call EXCEPT !.piped = Append(@, call.chunks[call.k]),
                            !.summaries = Append(@, Strip(out)),
                            !.k = @ + 1]
    /\ UNCHANGED progVars

\* for chunk in chunks: the engine raises, or its answer has no summary_text
EngineRaises ==
    /\ call.fn = "summarize" /\ call.pc = "for"
    /\ call.k <= Len(call.chunks)
    /\ call' = [call EXCEPT
                  !.piped = Append(@, call.chunks[call.k]),
                  !.summaries = Append(@, Fallback(call.chunks[call.k],
                                                   call.max_length)),
                  !.failed = @ \cup {call.k},
                  !.k = @ + 1]
    /\ UNCHANGED progVars

\* the further pass is always made
CompressAlways(chunks, combined) == TRUE

\* if len(chunks) > 1 and len(combined) > 2000
NeedsCompression(chunks, combined) ==
    Len(chunks) > 1 /\ Len(combined) > CombinedLimit

\* combined = "\n".join(summaries);
\* if len(chunks) > 1 and len(combined) > 2000: ... ; return combined
Combine ==
    /\ call.fn = "summarize" /\ call.pc = "for"
    /\ call.k > Len(call.chunks)
    /\ LET combined == Join(call.summaries) IN
       call' = IF NeedsCompression(call.chunks, combined)
               THEN [call EXCEPT !.pc = "again", !.combined = combined]
               ELSE [call EXCEPT !.pc = "done", !.combined = combined,
                                 !.result = combined]
    /\ UNCHANGED progVars

\* the pass over the joined summaries: return out[0]['summary_text'].strip()
CompressAnswers(out) ==
    /\ call.fn = "summarize" /\ call.pc = "again"
    /\ call' = [call EXCEPT !.pc = "done", !.again = TRUE,
                            !.piped = Append(@, call.combined),
                            !.result = Strip(out)]
    /\ UNCHANGED progVars

\* the pass over the joined summaries raises: return combined[:max_length]
CompressRaises ==
    /\ call.fn = "summarize" /\ call.pc = "again"
    /\ call' = [call EXCEPT !.pc = "done", !.again = TRUE,
                            !.again_raised = TRUE,
                            !.piped = Append(@, call.combined),
                            !.result = Prefix(call.combined, call.max_length)]
    /\ UNCHANGED progVars

\* summarize applied to any body of at most MaxBody characters, with any
\* max_length up to MaxLength
InitSummarize ==
    /\ Quiet
    /\ call \in {SummarizeCall(text, max_length) :
                    text \in TextsUpTo(MaxBody), max_length \in 1..MaxLength}

NextSummarize ==
    \/ SummarizeStart
    \/ \E out \in EngineOutputs : EngineAnswers(out)
    \/ EngineRaises
    \/ Combine
    \/ \E out \in EngineOutputs : CompressAnswers(out)
    \/ CompressRaises

SpecSummarize == InitSummarize /\ [][NextSummarize]_vars

---------------------------------------------------------------------------
(* parser.py: _get_text_from_email *)

\* part.get_content_type() of a leaf part: the two textual types the function
\* looks for, and one other type
CTypes == {"text/plain", "text/html", "image/png"}

\* two different payloads
Payloads == {"x", "y"}

\* a leaf part: its type, its bytes, and whether Python knows the codec of its
\* declared charset (bytes.decode raises LookupError when it does not)
Parts ==
    [ctype : CTypes, payload : Payloads, charset_known : BOOLEAN]

\* a message: a multipart container with its leaf parts in document order, or
\* a single part
Messages ==
    [multipart : {TRUE},
     parts : UNION {[1..n -> Parts] : n \in 0..MaxParts}]
        \cup [multipart : {FALSE}, parts : [1..1 -> Parts]]

\* msg.walk(): the container itself, then its parts in document order
Walk(msg) ==
    <<[ctype |-> "multipart/mixed", payload |-> "x", charset_known |-> TRUE]>>
        \o msg.parts

\* part.get_payload(decode=True).decode(charset or 'utf-8', errors='replace')
Decoded(part) == <<"decoded", part.payload>>

\* BeautifulSoup(html, 'html.parser').get_text("\n")
HtmlText(html) == IF html = <<>> THEN <<>> ELSE <<"text of html", html>>

\* the first part of the walk with this type whose decoding does not raise
\* (except Exception: continue), 0 when there is none
FirstDecodable(walk, ctype) ==
    LET ks == {k \in 1..Len(walk) :
                  walk[k].ctype = ctype /\ walk[k].charset_known} IN
    IF ks = {} THEN 0 ELSE Min(ks)

\* one walk that takes the first textual part, plain or HTML
ChosenPartFirstTextual(walk) ==
    LET ks == {k \in 1..Len(walk) :
                  /\ walk[k].ctype \in {"text/plain", "text/html"}
                  /\ walk[k].charset_known} IN
    IF ks = {} THEN 0 ELSE Min(ks)

\* the two walks of the multipart branch: text/plain first, then text/html
ChosenPart(walk) ==
    IF FirstDecodable(walk, "text/plain") # 0
    THEN FirstDecodable(walk, "text/plain")
    ELSE FirstDecodable(walk, "text/html")

\* _get_text_from_email(msg): (body_text, content_type_used)
get_text_from_email(msg) ==
    IF msg.multipart
    THEN LET walk == Walk(msg)
             k == ChosenPart(walk) IN
         IF k = 0 THEN [body_text |-> <<>>, ctype |-> None]
         ELSE IF walk[k].ctype = "text/plain"
         THEN [body_text |-> Decoded(walk[k]), ctype |-> <<"text/plain">>]
         ELSE [body_text |-> HtmlText(Decoded(walk[k])),
               ctype |-> <<"text/html">>]
    ELSE LET part == msg.parts[1]
             decoded == IF part.charset_known THEN Decoded(part) ELSE <<>> IN
         IF part.ctype = "text/html"
         THEN [body_text |-> HtmlText(decoded), ctype |-> <<"text/html">>]
         ELSE [body_text |-> decoded, ctype |-> <<part.ctype>>]

\* body_text, _ = _get_text_from_email(msg), for a multipart message
GetTextMultipart ==
    /\ call.fn = "_get_text_from_email" /\ call.pc = "start"
    /\ call.msg.multipart
    /\ call' = [call EXCEPT !.pc = "done",
                            !.result = get_text_from_email(call.msg)]
    /\ UNCHANGED progVars

\* body_text, _ = _get_text_from_email(msg), for a message of one part
GetTextSinglePart ==
    /\ call.fn = "_get_text_from_email" /\ call.pc = "start"
    /\ ~call.msg.multipart
    /\ call' = [call EXCEPT !.pc = "done",
                            !.result = get_text_from_email(call.msg)]
    /\ UNCHANGED progVars

\* _get_text_from_email applied to any message of at most MaxParts parts
InitBody ==
    /\ Quiet
    /\ call \in [fn : {"_get_text_from_email"}, pc : {"start"},
                 msg : Messages, result : {None}]

NextBody == GetTextMultipart \/ GetTextSinglePart

SpecBody == InitBody /\ [][NextBody]_vars

---------------------------------------------------------------------------
(* parser.py: _parse_sender, and the sender parse_email returns *)

RECURSIVE Concat(_)
\* the pieces written one after the other
Concat(ps) == IF ps = <<>> THEN <<>> ELSE Head(ps) \o Concat(Tail(ps))

\* the texts made of at most n pieces
MadeOf(pieces, n) == {Concat(ps) : ps \in UNION {[1..k -> pieces] : k \in 0..n}}

\* what From headers are made of: a word, a blank, the angle brackets, an at
\* sign, a double quote, an address
HeaderPieces ==
    {<<"n">>, <<" ">>, <<"<">>, <<">">>, <<"@">>, <<"\"">>, <<"n", "@", "n">>}

\* c in s
Has(s, c) == \E k \in 1..Len(s) : s[k] = c

\* name.strip('"\'')
StripQuotes(s) ==
    LET ns == {k \in 1..Len(s) : s[k] \notin {"\"", "'"}} IN
    IF ns = {} THEN <<>> ELSE SubSeq(s, Min(ns), Max(ns))

\* re.search(r'<([^>]+@[^>]+)>', from_header): the pairs (i, j) of a "<" and
\* the first ">" after it with, between them, an "@" that has a character on
\* each side
EmailMatches(h) ==
    {ij \in (1..Len(h)) \X (1..Len(h)) :
        /\ ij[1] < ij[2]
        /\ h[ij[1]] = "<" /\ h[ij[2]] = ">"
        /\ \A k \in (ij[1] + 1)..(ij[2] - 1) : h[k] # ">"
        /\ \E k \in (ij[1] + 2)..(ij[2] - 2) : h[k] = "@"}

\* email_match.group(1) of the leftmost match
EmailGroup(h) ==
    LET i == Min({ij[1] : ij \in EmailMatches(h)})
        j == Min({ij[2] : ij \in {m \in EmailMatches(h) : m[1] = i}}) IN
    SubSeq(h, i + 1, j - 1)

\* re.search(r'^([^<]+)<', from_header).group(1), None without a match
NameGroup(h) ==
    LET lts == {k \in 1..Len(h) : h[k] = "<"} IN
    IF lts = {} \/ Min(lts \cup {Len(h) + 1}) = 1
    THEN None
    ELSE <<SubSeq(h, 1, Min(lts) - 1)>>

\* a test that lets a header with blanks pass for an address
IsBareTokenWithBlanks(h) == Has(h, "@")

\* '@' in from_header and ' ' not in from_header
IsBareToken(h) == Has(h, "@") /\ ~Has(h, " ")

Unknown == <<"U", "n", "k", "n", "o", "w", "n">>

\* unknown@example.com
NoAddress ==
    <<"u", "n", "k", "n", "o", "w", "n", "@",
      "e", "x", "a", "m", "p", "l", "e", ".", "c", "o", "m">>

\* a result that is the address alone
FormatBare(name, email) == email

\* f"{name} <{email}>"
Format(name, email) == name \o <<" ", "<">> \o email \o <<">">>

\* _parse_sender(from_header)
parse_sender(from_header) ==
    IF from_header = <<>> THEN Format(Unknown, NoAddress)
    ELSE IF EmailMatches(from_header) = {} /\ ~IsBareToken(from_header)
    THEN Format(Unknown, NoAddress)
    ELSE LET email == IF EmailMatches(from_header) # {}
                      THEN Strip(EmailGroup(from_header))
                      ELSE Strip(from_header)
             name_match == NameGroup(from_header)
             name == IF name_match = None THEN <<>>
                     ELSE StripQuotes(Strip(name_match[1])) IN
         IF name_match # None /\ name # <<>> /\ name # email
         THEN Format(name, email)
         ELSE Format(Unknown, email)

\* parse_email: from_header = msg.get('From', ''); from_email =
\* _parse_sender(from_header); From is None for a message without the header
ParseSender ==
    /\ call.fn = "parse_email" /\ call.pc = "start"
    /\ LET from_header == IF call.From = None THEN <<>> ELSE call.From[1] IN
       call' = [call EXCEPT !.pc = "done",
                            !.from_header = from_header,
                            !.from_email = parse_sender(from_header)]
    /\ UNCHANGED progVars

\* the sender is the only part of parse_email's result these runs look at
ReturnSender ==
    /\ call.fn = "parse_email" /\ call.pc = "done"
    /\ call' = [call EXCEPT !.pc = "returned", !.result = call.from_email]
    /\ UNCHANGED progVars

\* parse_email applied to a message with any From header of at most
\* MaxPieces pieces, or with none
InitSender ==
    /\ Quiet
    /\ call \in [fn : {"parse_email"}, pc : {"start"},
                 From : {None} \cup {<<h>> : h \in MadeOf(HeaderPieces, MaxPieces)},
                 from_header : {None}, from_email : {None}, result : {None}]

NextSender == ParseSender \/ ReturnSender

SpecSender == InitSender /\ [][NextSender]_vars

---------------------------------------------------------------------------
(* parser.py: extract_links *)

\* what body texts with links are made of: a URL, a scheme in capitals, a
\* scheme short of a slash, a letter, an at sign, a blank, a line break
LinkPieces ==
    {<<"h", "t", "t", "p", ":", "/", "/", "a">>,
     <<"H", "T", "T", "P", "S", ":", "/", "/">>,
     <<"h", "t", "t", "p", ":", "/">>,
     <<"a">>, <<"@">>, <<" ">>, <<"\n">>}

\* re.IGNORECASE
Lower(c) ==
    CASE c = "H" -> "h" [] c = "T" -> "t" [] c = "P" -> "p" [] c = "S" -> "s"
      [] OTHER -> c

\* text[i:] starts with word, case ignored (i counts from 1)
StartsWithAt(text, i, word) ==
    /\ i + Len(word) - 1 <= Len(text)
    /\ \A k \in 1..Len(word) : Lower(text[i + k - 1]) = word[k]

\* the scheme is matched whatever follows it
SchemeEndLoose(text, i) ==
    IF StartsWithAt(text, i, <<"h", "t", "t", "p", "s", ":", "/", "/">>)
    THEN <<i + 7>>
    ELSE IF StartsWithAt(text, i, <<"h", "t", "t", "p", ":", "/", "/">>)
    THEN <<i + 6>>
    ELSE None

\* https?://\S : the index of the last character of the scheme matched at i
\* when a character that is not white space follows it, None otherwise
SchemeEnd(text, i) ==
    LET e == IF StartsWithAt(text, i, <<"h", "t", "t", "p", "s", ":", "/", "/">>)
             THEN i + 7
             ELSE IF StartsWithAt(text, i, <<"h", "t", "t", "p", ":", "/", "/">>)
             THEN i + 6
             ELSE 0 IN
    IF e > 0 /\ e < Len(text) /\ ~IsSpace(text[e + 1]) THEN <<e>> ELSE None

\* \S+ is greedy: the index of the last character before the next white
\* space after i, or of the last character of the text
RunEnd(text, i) ==
    LET spaces == {k \in i..Len(text) : IsSpace(text[k])} IN
    IF spaces = {} THEN Len(text) ELSE Min(spaces) - 1

\* the leftmost match of _LINK_REGEX at or after pos, as <<first, last>>
NextMatch(text, pos) ==
    LET starts == {i \in pos..Len(text) : SchemeEnd(text, i) # None} IN
    IF starts = {} THEN None
    ELSE <<<<Min(starts), RunEnd(text, Min(starts))>>>>

\* _LINK_REGEX.findall(text) finds the next match
LinkFound ==
    /\ call.fn = "extract_links" /\ call.pc = "scan"
    /\ NextMatch(call.text, call.pos) # None
    /\ LET m == NextMatch(call.text, call.pos)[1] IN
       call' = [call EXCEPT !.pos = m[2] + 1,
                            !.links = Append(@, SubSeq(call.text, m[1], m[2]))]
    /\ UNCHANGED progVars

\* no match is left: extract_links returns the list
LinksReturn ==
    /\ call.fn = "extract_links" /\ call.pc = "scan"
    /\ NextMatch(call.text, call.pos) = None
    /\ call' = [call EXCEPT !.pc = "returned", !.result = call.links]
    /\ UNCHANGED progVars

\* extract_links applied to any text of at most MaxPieces pieces
InitLinks ==
    /\ Quiet
    /\ call \in [fn : {"extract_links"}, pc : {"scan"},
                 text : MadeOf(LinkPieces, MaxPieces), pos : {1},
                 links : {<<>>}, result : {<<>>}]

NextLinks == LinkFound \/ LinksReturn

SpecLinks == InitLinks /\ [][NextLinks]_vars

---------------------------------------------------------------------------
(* ner_extras.py: get_primary_deadline *)

Instants == 0..MaxInstant

\* the confidence extract_dates gives to its three methods, in tenths
Confidences == {7, 8, 9}

\* a datetime: its instant, and whether it carries a time zone (dateparser
\* returns an aware datetime when the phrase names a zone)
Datetimes == [t : Instants, aware : BOOLEAN]

DateEntries == [parsed_date : Datetimes, confidence : Confidences]

DateLists == UNION {[1..n -> DateEntries] : n \in 0..MaxDates}

\* d > now between datetimes: TypeError when one is aware and the other is not
Comparable(d, now) == d.aware = now.aware

\* [d for d in dates if d['parsed_date'] > now]
FutureDates(dates, now) ==
    SelectSeq(dates, LAMBDA d : d.parsed_date.t > now.t)

\* max(future_dates, key=confidence): the first of the entries of highest
\* confidence
MaxByConfidence(ds) ==
    ds[Min({k \in 1..Len(ds) :
               \A j \in 1..Len(ds) : ds[j].confidence <= ds[k].confidence})]

\* if not dates: return None
DeadlineOfNone ==
    /\ call.fn = "get_primary_deadline" /\ call.pc = "start"
    /\ call.dates = <<>>
    /\ call' = [call EXCEPT !.pc = "returned", !.result = None]
    /\ UNCHANGED progVars

\* now = datetime.now(), a naive datetime; future_dates = [...]
FilterFuture ==
    /\ call.fn = "get_primary_deadline" /\ call.pc = "start"
    /\ call.dates # <<>>
    /\ \E t \in Instants :
          LET now == [t |-> t, aware |-> FALSE] IN
          /\ \A k \in 1..Len(call.dates) :
                Comparable(call.dates[k].parsed_date, now)
          /\ call' = [call EXCEPT !.pc = "filtered", !.now = <<now>>,
                                  !.future_dates = FutureDates(call.dates, now)]
    /\ UNCHANGED progVars

\* the comparison of an aware parsed_date with now raises TypeError
FilterRaises ==
    /\ call.fn = "get_primary_deadline" /\ call.pc = "start"
    /\ call.dates # <<>>
    /\ \E t \in Instants :
          LET now == [t |-> t, aware |-> FALSE] IN
          /\ \E k \in 1..Len(call.dates) :
                ~Comparable(call.dates[k].parsed_date, now)
          /\ call' = [call EXCEPT !.pc = "raised", !.now = <<now>>]
    /\ UNCHANGED progVars

\* if not future_dates: return None
NoFutureDate ==
    /\ call.fn = "get_primary_deadline" /\ call.pc = "filtered"
    /\ call.future_dates = <<>>
    /\ call' = [call EXCEPT !.pc = "returned", !.result = None]
    /\ UNCHANGED progVars

\* return max(future_dates, key=...)['parsed_date']
ReturnMax ==
    /\ call.fn = "get_primary_deadline" /\ call.pc = "filtered"
    /\ call.future_dates # <<>>
    /\ call' = [call EXCEPT !.pc = "returned",
                   !.result = <<MaxByConfidence(call.future_dates).parsed_date>>]
    /\ UNCHANGED progVars

\* get_primary_deadline applied to any list of at most MaxDates dates
InitDeadline ==
    /\ Quiet
    /\ call \in [fn : {"get_primary_deadline"}, pc : {"start"},
                 dates : DateLists, now : {None}, future_dates : {<<>>},
                 result : {None}]

NextDeadline ==
    DeadlineOfNone \/ FilterFuture \/ FilterRaises \/ NoFutureDate \/ ReturnMax

SpecDeadline == InitDeadline /\ [][NextDeadline]_vars

---------------------------------------------------------------------------
(* ner_extras.py: extract_action_items *)

\* ACTION_VERBS, two of them, in list order
ACTION_VERBS == <<<<"s", "u", "b", "m", "i", "t">>, <<"s", "e", "n", "d">>>>

\* the bullet markers line.startswith looks for, two of them
Bullets == {<<"-">>, <<"*">>}

\* the personal pronouns line.startswith looks for, two of them
Pronouns == {<<"I">>, <<"W", "e">>}

\* lines shorter than this are skipped
MinLineLen == 10

\* str.lower() on the capitals the lines hold
lower(s) ==
    [k \in 1..Len(s) |->
        CASE s[k] = "P" -> "p" [] s[k] = "S" -> "s" [] s[k] = "W" -> "w"
          [] s[k] = "I" -> "i" [] OTHER -> s[k]]

\* s.startswith(w)
startswith(s, w) == Len(w) <= Len(s) /\ SubSeq(s, 1, Len(w)) = w

\* s.endswith(w)
endswith(s, w) == Len(w) <= Len(s) /\ SubSeq(s, Len(s) - Len(w) + 1, Len(s)) = w

\* w in s
contains(s, w) ==
    \E i \in 1..(Len(s) - Len(w) + 1) : SubSeq(s, i, i + Len(w) - 1) = w

\* the lines texts are made of: lines that start with a verb, with and
\* without a final period and a capital; 'please' lines; a bullet line; a
\* line that starts with a pronoun; a short line; a line with blanks around
\* it; the empty line
ActionLines ==
    {<<"s", "e", "n", "d", " ", "t", "h", "e", " ", "r", "e", "p", "o", "r", "t">>,
     <<"s", "e", "n", "d", " ", "t", "h", "e", " ", "r", "e", "p", "o", "r", "t", ".">>,
     <<"s", "u", "b", "m", "i", "t", ":", " ", "t", "h", "e", " ", "r", "e", "p", "o", "r", "t">>,
     <<"S", "e", "n", "d", " ", "t", "h", "e", " ", "r", "e", "p", "o", "r", "t">>,
     <<"P", "l", "e", "a", "s", "e", " ", "s", "e", "n", "d", " ", "i", "t", ".">>,
     <<"p", "l", "e", "a", "s", "e", " ", "s", "e", "n", "d", " ", "i", "t">>,
     <<"-", " ", "s", "e", "n", "d", " ", "t", "h", "e", " ", "r", "e", "p", "o", "r", "t">>,
     <<"W", "e", " ", "s", "e", "n", "d", " ", "i", "t", " ", "a", "l", "l", ".">>,
     <<"s", "e", "n", "d", " ", "i", "t">>,
     <<" ", "s", "e", "n", "d", " ", "t", "h", "e", " ", "r", "e", "p", "o", "r", "t", " ">>,
     <<>>}

\* text.split('\n') of the texts of at most MaxLines lines
LineLists == UNION {[1..n -> ActionLines] : n \in 1..MaxLines}

\* the first verb of ACTION_VERBS among those at the indices ks, None when
\* there is none
FirstVerb(ks) ==
    IF ks = {} THEN None ELSE <<ACTION_VERBS[Min(ks)]>>

Item(line, verb, confidence, line_num, method) ==
    [text |-> line, verb |-> verb, confidence |-> confidence,
     line_number |-> line_num + 1, method |-> method]

\* the candidates one line contributes, in the order of the four heuristics;
\* line is stripped, line_num counts from 0
LineItems(line, line_num) ==
    LET line_lower == lower(line)
        StartsLine(verb) == \/ startswith(line_lower, verb \o <<" ">>)
                            \/ startswith(line_lower, verb \o <<":">>)
        InLine(verb) == contains(line_lower, verb)
        verb_start == FirstVerb({k \in 1..Len(ACTION_VERBS) : StartsLine(ACTION_VERBS[k])})
        any_verb == FirstVerb({k \in 1..Len(ACTION_VERBS) : InLine(ACTION_VERBS[k])})
        a == IF verb_start # None
             THEN <<Item(line, verb_start[1], 9, line_num, "verb_start")>>
             ELSE <<>>
        b == IF (\E m \in Bullets : startswith(line, m)) /\ any_verb # None
             THEN <<Item(line, any_verb[1], 8, line_num, "bullet_verb")>>
             ELSE <<>>
        c == IF /\ endswith(line, <<".">>)
                /\ ~\E w \in Pronouns : startswith(line, w)
                /\ any_verb # None
             THEN <<Item(line, any_verb[1], 7, line_num, "imperative")>>
             ELSE <<>>
        d == IF startswith(line_lower, <<"p", "l", "e", "a", "s", "e", " ">>)
                /\ any_verb # None
             THEN <<Item(line, any_verb[1], 8, line_num, "please_verb")>>
             ELSE <<>> IN
    a \o b \o c \o d

\* the entries whose text no earlier entry has
RECURSIVE FirstOfEachText(_, _)
FirstOfEachText(items, seen) ==
    IF items = <<>> THEN <<>>
    ELSE IF Head(items).text \in seen THEN FirstOfEachText(Tail(items), seen)
    ELSE <<Head(items)>> \o
         FirstOfEachText(Tail(items), seen \cup {Head(items).text})

\* the loop over seen_texts
Dedupe(items) == FirstOfEachText(items, {})

\* the list is left in the order it has
Unsorted(items) == items

\* list.sort(key=confidence, reverse=True): stable, highest first
SortByConfidence(items) ==
    SelectSeq(items, LAMBDA x : x.confidence = 9)
        \o SelectSeq(items, LAMBDA x : x.confidence = 8)
        \o SelectSeq(items, LAMBDA x : x.confidence = 7)

\* nothing is cut
TopActionsAll(items) == items

\* unique_actions[:10]
TopActions(items) == Prefix(items, ActionCap)

\* if not text: return []
ActionsOfNothing ==
    /\ call.fn = "extract_action_items" /\ call.pc = "start"
    /\ call.lines = <<<<>>>>
    /\ call' = [call EXCEPT !.pc = "returned", !.result = <<>>]
    /\ UNCHANGED progVars

\* lines = text.split('\n')
ActionsStart ==
    /\ call.fn = "extract_action_items" /\ call.pc = "start"
    /\ call.lines # <<<<>>>>
    /\ call' = [call EXCEPT !.pc = "loop"]
    /\ UNCHANGED progVars

\* one pass of the loop over the lines
ScanLine ==
    /\ call.fn = "extract_action_items" /\ call.pc = "loop"
    /\ call.line_num < Len(call.lines)
    /\ LET line == Strip(call.lines[call.line_num + 1]) IN
       call' = [call EXCEPT
                   !.line_num = @ + 1,
                   !.action_items =
                       IF line = <<>> \/ Len(line) < MinLineLen THEN @
                       ELSE @ \o LineItems(line, call.line_num)]
    /\ UNCHANGED progVars

\* the duplicates are removed, the rest sorted and cut
ActionsReturn ==
    /\ call.fn = "extract_action_items" /\ call.pc = "loop"
    /\ call.line_num = Len(call.lines)
    /\ call' = [call EXCEPT
                   !.pc = "returned",
                   !.result = TopActions(SortByConfidence(Dedupe(call.action_items)))]
    /\ UNCHANGED progVars

\* extract_action_items applied to any text of at most MaxLines lines
InitActions ==
    /\ Quiet
    /\ call \in [fn : {"extract_action_items"}, pc : {"start"},
                 lines : LineLists, line_num : {0}, action_items : {<<>>},
                 result : {<<>>}]

NextActions == ActionsOfNothing \/ ActionsStart \/ ScanLine \/ ActionsReturn

SpecActions == InitActions /\ [][NextActions]_vars

---------------------------------------------------------------------------
(* ner_extras.py: extract_dates *)

\* the texts a candidate can carry: the text itself, matched phrases,
\* trimmed sentences
DateTexts == {"due friday", "friday", "next week"}

\* what dateparser.parse returns for a phrase it can read
ParsedDates == {[t |-> 0, aware |-> FALSE], [t |-> MaxInstant, aware |-> TRUE]}

Candidate(text, parsed, confidence, method) ==
    [text |-> text, parsed_date |-> parsed, confidence |-> confidence,
     method |-> method]

\* unique_dates[:5]
TopDates(items) == Prefix(items, DateCap)

\* if not text: return []
DatesOfNothing ==
    /\ call.fn = "extract_dates" /\ call.pc = "start"
    /\ call.empty
    /\ call' = [call EXCEPT !.pc = "returned", !.result = <<>>]
    /\ UNCHANGED progVars

\* method 1: dateparser reads the whole text, or returns None, or raises
FullTextPass ==
    /\ call.fn = "extract_dates" /\ call.pc = "start"
    /\ ~call.empty
    /\ \/ \E x \in DateTexts, d \in ParsedDates :
             call' = [call EXCEPT
                         !.pc = "patterns",
                         !.dates = Append(@, Candidate(x, d, 8, "dateparser_full"))]
       \/ call' = [call EXCEPT !.pc = "patterns"]
    /\ UNCHANGED progVars

\* method 2: one more pattern match that dateparser can read
PatternMatch ==
    /\ call.fn = "extract_dates" /\ call.pc = "patterns"
    /\ call.found < MaxMatches
    /\ \E x \in DateTexts, d \in ParsedDates :
          call' = [call EXCEPT
                      !.found = @ + 1,
                      !.dates = Append(@, Candidate(x, d, 9, "pattern_match"))]
    /\ UNCHANGED progVars

\* the patterns are exhausted; sentences = re.split(...)
PatternsDone ==
    /\ call.fn = "extract_dates" /\ call.pc = "patterns"
    /\ call' = [call EXCEPT !.pc = "sentences", !.found = 0]
    /\ UNCHANGED progVars

\* method 3: one more sentence with a keyword that dateparser can read
SentenceMatch ==
    /\ call.fn = "extract_dates" /\ call.pc = "sentences"
    /\ call.found < MaxMatches
    /\ \E x \in DateTexts, d \in ParsedDates :
          call' = [call EXCEPT
                      !.found = @ + 1,
                      !.dates = Append(@, Candidate(x, d, 7, "keyword_context"))]
    /\ UNCHANGED progVars

\* the duplicates are removed as in extract_action_items, the rest sorted
\* and cut
DatesReturn ==
    /\ call.fn = "extract_dates" /\ call.pc = "sentences"
    /\ call' = [call EXCEPT
                   !.pc = "returned",
                   !.result = TopDates(SortByConfidence(Dedupe(call.dates)))]
    /\ UNCHANGED progVars

\* extract_dates applied to a text, empty or not
InitDates ==
    /\ Quiet
    /\ call \in [fn : {"extract_dates"}, pc : {"start"}, empty : BOOLEAN,
                 found : {0}, dates : {<<>>}, result : {<<>>}]

NextDates ==
    \/ DatesOfNothing
    \/ FullTextPass
    \/ PatternMatch
    \/ PatternsDone
    \/ SentenceMatch
    \/ DatesReturn

SpecDates == InitDates /\ [][NextDates]_vars

---------------------------------------------------------------------------
(* Claims about the store *)

\* at most one row per message id
UniqueMessageIds ==
    \A m \in MsgIds : Cardinality(RowsOf(store, m)) <= 1

\* a step that is a save_email for a message id already stored
DuplicateSaveStep ==
    /\ lastOp'.op = "save_email"
    /\ RowsOf(store, lastOp'.message_id) # {}

\* C1: after any sequence of save_email, update_notion_page_id and
\* mark_processed calls the table holds at most one row per message_id, and
\* a save_email for a message_id already present leaves the table, and so the
\* stored row, exactly as it was.
C1_IdempotentSave ==
    /\ []UniqueMessageIds
    /\ [][DuplicateSaveStep => store' = store]_vars

\* a duplicate save_email has been made on a table that holds two messages
C1_Witness ==
    /\ lastOp.op = "save_email"
    /\ lastOp.before # None
    /\ \A m \in MsgIds : RowsOf(store, m) # {}

\* row k keeps column c over the step
Keeps(k, c) == k <= Len(store') /\ store'[k][c] = store[k][c]

---------------------------------------------------------------------------
(* Claims about the coordinator *)

\* the pc values between the existence check and the end of a message's turn
Working ==
    {"parse", "summarize", "extract", "deadline", "save", "notion",
     "attempt", "returned", "writeback"}

\* C3: a fetched message whose message_id is in the table when its turn
\* comes (dup) gets none of parse, summarize, extract, save or sink, and each
\* such message adds exactly one to skipped_count; an existence check that
\* raises instead of answering is the case of C4.
C3_DuplicatesSkipped ==
    \A p \in Procs :
        LET l == proc[p] IN
        /\ l.dup \cap l.worked = {}
        /\ l.pc \in Working => l.i \notin l.dup
        /\ l.skipped_count = Cardinality({k \in l.dup : k < l.i})

\* a live run has skipped a message whose id an earlier message of the same
\* batch persisted
C3_Witness ==
    \E p \in Procs :
        LET l == proc[p] IN
        /\ l.pc = "done" /\ ~l.dry_run
        /\ \E j \in l.worked, k \in l.dup :
              /\ j < k
              /\ l.emails[j].message_id = l.emails[k].message_id
        /\ l.skipped_count = 1

\* C4: a failure raised at any step of one message, the existence check
\* included, is caught, and every later message of the batch still gets its
\* turn: no run ends on an exception, and a run that ends has gone through
\* its whole batch.
C4_EveryFailureCaught ==
    \A p \in Procs :
        LET l == proc[p] IN
        l.pc \in {"done", "aborted"} /\ l.emails # <<>>
            => l.pc = "done" /\ l.i = Len(l.emails) + 1

\* C5: every run that fetched at least one message ends by reporting the
\* four counts fetched, skipped-duplicate, newly-processed and
\* sink-pages-created, whatever failed during the batch.
C5_CountsAlwaysReported ==
    \A p \in Procs :
        LET l == proc[p] IN
        l.pc \in {"done", "aborted"} /\ l.emails # <<>>
            => l.reported = {"fetched", "skipped", "processed", "notion"}

\* C6: in a live run a row's notion_page_id is set only to the id of a page
\* the sink created for the same message; create_email_page is called only
\* for a message whose row is in the table, and never in a dry run; a failed
\* or absent sink call leaves the reference unset.
C6_ReferenceOnlyAfterSink ==
    /\ \A k \in 1..Len(store) :
          store[k].notion_page_id # None
              => \E j \in 1..Len(pages) :
                    /\ pages[j].id = store[k].notion_page_id
                    /\ pages[j].message_id = store[k].message_id
    /\ \A m \in MsgIds : sinkCalls[m] > 0 => RowsOf(store, m) # {}
    /\ \A p \in Procs :
          proc[p].pc \in {"attempt", "returned", "writeback"}
              => ~proc[p].dry_run /\ RowsOf(store, message_id(p)) # {}

\* one message has its reference set to its page, another had a sink call
\* that failed and has none
C6_Witness ==
    /\ \E k \in 1..Len(store) : store[k].notion_page_id # None
    /\ \E k \in 1..Len(store) :
          /\ store[k].notion_page_id = None
          /\ sinkCalls[store[k].message_id] > 0
    /\ \E p \in Procs : proc[p].pc = "done" /\ proc[p].notion_count = 1

AllRateLimited(rs) == \A k \in 1..Len(rs) : rs[k] = "rate_limited"

\* C7: while the sink answers every attempt with a rate limit,
\* _retry_with_backoff makes at most 3 attempts, sleeps 1 second before the
\* second and 2 seconds before the third, and after the third rate limit it
\* raises without a further sleep or attempt.
C7_RateLimitBackoff ==
    \A p \in Procs :
        LET l == proc[p]
            n == Len(l.responses) IN
        l.pc \in {"attempt", "returned"} /\ n > 0 /\ AllRateLimited(l.responses)
            => /\ n <= 3
               /\ l.slept = SubSeq(<<1, 2>>, 1, IF n < 3 THEN n ELSE 2)
               /\ n < 3 => l.pc = "attempt" /\ ~l.raised
               /\ n = 3 => l.pc = "returned" /\ l.raised

\* the third rate limit has ended the call
C7_Witness ==
    \E p \in Procs :
        /\ proc[p].pc = "returned"
        /\ proc[p].responses = <<"rate_limited", "rate_limited", "rate_limited">>

\* C8: an attempt is made only after rate limits; a failure that is not a
\* rate limit ends the call by raising on that attempt, with no sleep after
\* it; a successful attempt ends the call with the created page's id.
C8_OtherFailuresPropagate ==
    \A p \in Procs :
        LET l == proc[p]
            n == Len(l.responses) IN
        l.pc \in {"attempt", "returned"} /\ n > 0
            => /\ \A k \in 1..(n - 1) : l.responses[k] = "rate_limited"
               /\ l.responses[n] \in {"api_error", "exception"}
                    => /\ l.pc = "returned" /\ l.raised /\ l.result = None
                       /\ Len(l.slept) = n - 1
               /\ l.responses[n] = "ok"
                    => /\ l.pc = "returned" /\ ~l.raised
                       /\ l.result = pages[Len(pages)].id
                       /\ Len(l.slept) = n - 1

\* a non-rate-limit failure has ended a call whose first attempt was rate
\* limited
C8_Witness ==
    \E p \in Procs :
        /\ proc[p].pc = "returned"
        /\ proc[p].responses = <<"rate_limited", "api_error">>
        /\ proc[p].slept = <<1>>

\* C9: a message whose run stopped after its row was saved and before its
\* sink call stays in the table, is never passed to create_email_page by any
\* later run, and keeps a null notion_page_id.
C9_GapNeverHealed ==
    \A m \in gap :
        /\ RowsOf(store, m) # {}
        /\ sinkCalls[m] = 0
        /\ get_notion_page_id(store, m) = None

\* a later live run with a Notion writer has gone through a batch that holds
\* such a message
C9_Witness ==
    \E p \in Procs :
        LET l == proc[p] IN
        /\ l.pc = "done" /\ ~l.dry_run /\ l.notion_writer
        /\ \E k \in 1..Len(l.emails) : l.emails[k].message_id \in gap

---------------------------------------------------------------------------
(* Claims about resumed runs, under SpecResume *)

\* the rows persisted before the last stop are in the table, unchanged
KeptSinceStop ==
    snap # None =>
        \A k \in 1..Len(snap.table) :
            k <= Len(store) /\ store[k] = snap.table[k]

\* every message id of the batch has exactly one row, inserted exactly once
BatchPersistedOnce(l) ==
    \A k \in 1..Len(l.emails) :
        LET m == l.emails[k].message_id IN
        m # None => Cardinality(RowsOf(store, m)) = 1 /\ inserts[m] = 1

---------------------------------------------------------------------------
(* Claims about interleaved runs, under SpecConcurrent *)

\* both runs are past save_email for the same message id, so both passed the
\* existence check before either of them inserted
BothSaved(m) ==
    \A p \in Procs :
        /\ proc[p].pc = "notion" /\ ~proc[p].dry_run
        /\ message_id(p) = m

\* C11: when two runs interleave on one message_id, both passing the
\* existence check before either inserts, the table still holds exactly one
\* row for that message_id, added by one INSERT only, and the row keeps the
\* fields of the insert that committed first: no later step changes any of
\* its columns other than notion_page_id.
C11_RaceKeepsFirstInsert ==
    /\ [](\A m \in MsgIds :
            /\ inserts[m] <= 1
            /\ Cardinality(RowsOf(store, m)) = inserts[m]
            /\ BothSaved(m) => Cardinality(RowsOf(store, m)) = 1)
    /\ [][\A k \in 1..Len(store) :
            \A c \in (Cols \cup {"id"}) \ {"notion_page_id"} : Keeps(k, c)]_vars

\* two live runs have both executed save_email for the same message id
C11_Witness ==
    /\ \E m \in MsgIds : BothSaved(m)
    /\ proc[1].run # proc[2].run

---------------------------------------------------------------------------
(* Claims about dry runs *)

\* the steps of main() that write to the store or call the sink
Writing == {"save", "attempt", "returned", "writeback"}

\* C12: a dry run never reaches save_email, create_email_page or
\* update_notion_page_id, and no step of a dry run changes the table, the
\* Notion database or the counts of inserts and sink calls, whatever the
\* batch.
C12_DryRunWritesNothing ==
    /\ [](\A p \in Procs : proc[p].dry_run => proc[p].pc \notin Writing)
    /\ [][(\E p \in Procs : proc[p].dry_run /\ proc[p].pc \in Running)
            => /\ store' = store /\ pages' = pages
               /\ sinkCalls' = sinkCalls /\ inserts' = inserts]_vars

\* a dry run with --notion has gone through a batch of two messages, one of
\* them new, on a table an earlier live run had filled
C12_Witness ==
    \E p \in Procs :
        LET l == proc[p] IN
        /\ l.pc = "done" /\ l.dry_run /\ l.notion /\ l.notion_writer
        /\ l.processed_count = 1 /\ l.skipped_count = 1
        /\ Len(store) = 1

---------------------------------------------------------------------------
(* Claims about chunk_text, under SpecChunk *)

\* every g consecutive characters of s hold a period
PeriodEvery(s, g) ==
    /\ g >= 1
    /\ \A a \in 0..(Len(s) - g) : \E k \in (a + 1)..(a + g) : s[k] = "."

\* the spacing of periods that stands, for a window of max_chars, for the
\* 200 characters of a 3000-character window; it is the widest spacing that
\* still puts a period in the second half of every full window
PeriodGap(max_chars) == max_chars \div 2

\* chunk_text has returned for a body longer than max_chars with a period at
\* least every PeriodGap(max_chars) characters
LongPunctuatedBody ==
    /\ call.pc = "done"
    /\ Len(call.arg) > call.max_chars
    /\ PeriodEvery(call.arg, PeriodGap(call.max_chars))

\* the k-th chunk ends at a period of the text
EndsAtPeriod(k) ==
    /\ call.text[call.cuts[k].end] = "."
    /\ call.chunks[k] # <<>>
    /\ call.chunks[k][Len(call.chunks[k])] = "."

\* the end of the k-th chunk lies past the midpoint of its window
PastMidpoint(k) ==
    2 * (call.cuts[k].end - call.cuts[k].start)
        > call.cuts[k].window_end - call.cuts[k].start

\* the k-th chunk was cut from a window of max_chars characters
FullWindow(k) == call.cuts[k].window_end - call.cuts[k].start = call.max_chars

AtMostMaxChars ==
    \A k \in 1..Len(call.result) : Len(call.result[k]) <= call.max_chars

\* C14 as stated: for a body longer than max_chars with a period at least
\* every PeriodGap characters, every chunk has at most max_chars characters
\* and every chunk cut from a window ends at a period past the midpoint of
\* that window.
C14_EveryChunkEndsPastMidpoint ==
    LongPunctuatedBody =>
        /\ AtMostMaxChars
        /\ \A k \in 1..Len(call.cuts) : EndsAtPeriod(k) /\ PastMidpoint(k)

\* C14 amended: for such a body every chunk has at most max_chars characters;
\* every chunk cut from a full window of max_chars characters ends at a
\* period past the midpoint of that window; a chunk cut from the shorter
\* window left at the end of the text ends at the last period of that window
\* wherever it lies, and when that window has no period the chunk is the rest
\* of the text and ends at no period.
C14_FullWindowChunksEndPastMidpoint ==
    LongPunctuatedBody =>
        /\ AtMostMaxChars
        /\ \A k \in 1..Len(call.cuts) :
              LET c == call.cuts[k]
                  last_period == rfind(Slice(call.text, c.start, c.window_end), ".")
              IN
              /\ FullWindow(k) => EndsAtPeriod(k) /\ PastMidpoint(k)
              /\ ~FullWindow(k) /\ last_period # -1
                    => EndsAtPeriod(k) /\ c.end = c.start + last_period + 1
              /\ ~FullWindow(k) /\ last_period = -1
                    => c.end = Len(call.text) /\ ~EndsAtPeriod(k)

\* such a body has been cut into two chunks from full windows, one of them
\* before the end of its window, and a last chunk that ends at no period
C14_Witness ==
    /\ LongPunctuatedBody
    /\ Len(call.result) = 3
    /\ FullWindow(1) /\ FullWindow(2)
    /\ \E k \in 1..2 : call.cuts[k].end < call.cuts[k].window_end
    /\ ~EndsAtPeriod(3)

---------------------------------------------------------------------------
(* Claims about summarize, under SpecSummarize *)

\* the engine was called once per chunk handled so far, in chunk order
PipedInChunkOrder ==
    LET n == IF call.pc = "start" THEN 0 ELSE call.k - 1 IN
    /\ Len(call.summaries) = n
    /\ Len(call.piped) = n + (IF call.again THEN 1 ELSE 0)
    /\ \A j \in 1..n : call.piped[j] = call.chunks[j]

\* a chunk the engine failed on has, in its place among the summaries, its
\* own first max_length characters
FailedChunksDegrade ==
    \A j \in call.failed :
        /\ j <= Len(call.summaries)
        /\ call.summaries[j] = Prefix(call.chunks[j], call.max_length)

\* summarize has returned having handled every chunk
AllChunksHandled ==
    call.pc = "done" /\ call.arg # <<>>
        => call.k = Len(call.chunks) + 1 /\ call.combined = Join(call.summaries)

\* C13 as stated: the engine is called once per chunk in chunk order, a chunk
\* the engine fails on contributes its own first max_length characters to the
\* result, which is the summaries joined by line breaks, and the remaining
\* chunks are still summarized.
C13_FailedChunkInResult ==
    /\ PipedInChunkOrder
    /\ FailedChunksDegrade
    /\ AllChunksHandled
    /\ call.pc = "done" /\ call.failed # {} => call.result = Join(call.summaries)

\* C13 amended: the engine is called once per chunk in chunk order; a chunk
\* the engine fails on contributes its own first max_length characters, in
\* its place, to the summaries joined by line breaks; the remaining chunks
\* are still summarized and summarize returns; the joined text is the result
\* unless there was more than one chunk and it is longer than CombinedLimit,
\* and then the result is made from it by the one further pass.
C13_FailedChunkInJoinedText ==
    /\ PipedInChunkOrder
    /\ FailedChunksDegrade
    /\ AllChunksHandled
    /\ call.pc = "done" /\ call.failed # {} /\ ~call.again
          => call.result = Join(call.summaries)
    /\ call.pc = "done" /\ call.again
          => /\ Len(call.chunks) > 1 /\ Len(call.combined) > CombinedLimit
             /\ call.piped[Len(call.piped)] = call.combined

\* the engine failed on the first of three chunks, a chunk longer than
\* max_length, answered for the others, and summarize returned the joined
\* text
C13_Witness ==
    /\ call.pc = "done" /\ ~call.again
    /\ Len(call.chunks) = 3
    /\ call.failed = {1}
    /\ Len(call.chunks[1]) > call.max_length
    /\ call.result = Join(call.summaries)

---------------------------------------------------------------------------
(* Claims about _get_text_from_email, under SpecBody *)

\* the indexes of the parts of this type, in document order
PartsOfType(msg, ctype) ==
    {k \in 1..Len(msg.parts) : msg.parts[k].ctype = ctype}

\* the function has returned for a multipart message with at least one
\* text/plain part and at least one text/html part
ReturnedForBoth ==
    /\ call.pc = "done" /\ call.msg.multipart
    /\ PartsOfType(call.msg, "text/plain") # {}
    /\ PartsOfType(call.msg, "text/html") # {}

\* C15 as stated: for a multipart message with both a text/plain and a
\* text/html part, in either order, the body is the decoded content of the
\* first text/plain part, never text made from the HTML part.
C15_PlainPartAlwaysWins ==
    ReturnedForBoth =>
        call.result.body_text =
            Decoded(call.msg.parts[Min(PartsOfType(call.msg, "text/plain"))])

\* C15 amended: for such a message the body is the decoded content of the
\* first text/plain part whose payload can be decoded, wherever the HTML part
\* stands; text made from the first decodable HTML part is returned only
\* when no text/plain part can be decoded, and the empty body when no HTML
\* part can be decoded either.
C15_FirstDecodablePlainPartWins ==
    ReturnedForBoth =>
        LET ok(t) == {k \in PartsOfType(call.msg, t) :
                         call.msg.parts[k].charset_known} IN
        /\ ok("text/plain") # {}
              => call.result.body_text
                    = Decoded(call.msg.parts[Min(ok("text/plain"))])
        /\ ok("text/plain") = {} /\ ok("text/html") # {}
              => call.result.body_text
                    = HtmlText(Decoded(call.msg.parts[Min(ok("text/html"))]))
        /\ ok("text/plain") = {} /\ ok("text/html") = {}
              => call.result.body_text = <<>>

\* the HTML part came first, both parts could be decoded and held different
\* content, and the body is the plain part's
C15_Witness ==
    /\ ReturnedForBoth
    /\ Len(call.msg.parts) = 2
    /\ call.msg.parts[1].ctype = "text/html"
    /\ call.msg.parts[2].ctype = "text/plain"
    /\ call.msg.parts[1].charset_known /\ call.msg.parts[2].charset_known
    /\ call.msg.parts[1].payload # call.msg.parts[2].payload
    /\ call.result.body_text = Decoded(call.msg.parts[2])

\* C16: a message with no text/plain part and no text/html part, multipart
\* or of a single part of another type, gets the empty body.
C16_NoTextualPartEmptyBody ==
    /\ call.pc = "done"
    /\ PartsOfType(call.msg, "text/plain") = {}
    /\ PartsOfType(call.msg, "text/html") = {}
    => call.result.body_text = <<>>

---------------------------------------------------------------------------
(* Claims about _parse_sender and parse_email's sender, under SpecSender *)

\* a display name: not empty, no blank at either end, no bracket, quote or
\* at sign
IsName(n) ==
    /\ n # <<>> /\ Strip(n) = n
    /\ \A k \in 1..Len(n) : n[k] \notin {"<", ">", "\"", "'", "@"}

\* an address: an at sign with a character on each side, and no blank,
\* bracket or quote
IsAddress(e) ==
    /\ \E k \in 2..(Len(e) - 1) : e[k] = "@"
    /\ \A k \in 1..Len(e) : e[k] \notin {" ", "<", ">", "\"", "'"}

\* the ways to read h as 'Name <email>'
NameEmailForms(h) ==
    {k \in 2..(Len(h) - 3) :
        /\ h[k] = " " /\ h[k + 1] = "<" /\ h[Len(h)] = ">"
        /\ IsName(SubSeq(h, 1, k - 1))
        /\ IsAddress(SubSeq(h, k + 2, Len(h) - 1))}

\* h is a bare single-token address: no spaces, contains '@'
IsBareAddress(h) ==
    /\ \E k \in 1..Len(h) : h[k] = "@"
    /\ \A k \in 1..Len(h) : h[k] # " "

\* _parse_sender has returned
SenderParsed == call.pc \in {"done", "returned"}

\* C17 as stated: 'Name <email>' is mapped to itself, a bare single-token
\* address to 'Unknown <email>', and every other header, the empty one
\* included, to the sentinel.
C17_ThreeFormsOnly ==
    SenderParsed =>
        LET h == call.from_header IN
        call.from_email =
            IF NameEmailForms(h) # {} THEN h
            ELSE IF IsBareAddress(h) THEN Unknown \o <<" ", "<">> \o h \o <<">">>
            ELSE Unknown \o <<" ", "<">> \o NoAddress \o <<">">>

\* C17 amended: 'Name <email>' is mapped to itself; a bare single-token
\* address without '<' to 'Unknown <email>'; the empty header, a header
\* without an at sign, and a header with a blank and no bracketed address to
\* the sentinel. Every other header, one that holds a bracketed address
\* '<..@..>' or is a single token with an at sign, is mapped to 'N <email>',
\* email being the content of the first such bracket (the whole token when
\* there is none) and N the text before the first '<' trimmed of blanks and
\* quotes, or to 'Unknown <email>' when N is empty or equal to the email: so
\* '<email>' alone gives 'Unknown <email>', not the sentinel.
C17_BracketedAddressWins ==
    SenderParsed =>
        LET h == call.from_header
            r == call.from_email
            sentinel == Unknown \o <<" ", "<">> \o NoAddress \o <<">">>
            lts == {k \in 1..Len(h) : h[k] = "<"}
            before == IF lts = {} THEN <<>> ELSE SubSeq(h, 1, Min(lts) - 1)
            N == StripQuotes(Strip(before)) IN
        /\ NameEmailForms(h) # {} => r = h
        /\ IsBareAddress(h) /\ lts = {}
              => r = Unknown \o <<" ", "<">> \o h \o <<">">>
        /\ h = <<>> \/ ~Has(h, "@") => r = sentinel
        /\ Has(h, " ") /\ EmailMatches(h) = {} => r = sentinel
        /\ EmailMatches(h) # {} \/ IsBareAddress(h)
              => LET email == IF EmailMatches(h) # {}
                              THEN Strip(EmailGroup(h)) ELSE h IN
                 r = (IF N = <<>> \/ N = email THEN Unknown ELSE N)
                        \o <<" ", "<">> \o email \o <<">">>
        /\ h = <<"<", "n", "@", "n", ">">> => r # sentinel

\* the three headers of the claim and '<email>' alone have been parsed
C17_Witness ==
    /\ SenderParsed
    /\ \/ call.from_header = <<"n", " ", "<", "n", "@", "n", ">">>
             /\ call.from_email = call.from_header
       \/ call.from_header = <<"<", "n", "@", "n", ">">>
             /\ call.from_email = Unknown \o <<" ", "<", "n", "@", "n", ">">>

\* the address a From header carries: the content of its bracketed address,
\* or the header itself when it is a bare address; None otherwise
AddressOf(h) ==
    IF EmailMatches(h) # {} THEN <<Strip(EmailGroup(h))>>
    ELSE IF IsBareAddress(h) THEN <<h>>
    ELSE None

---------------------------------------------------------------------------
(* Claims about extract_links, under SpecLinks *)

\* text.split(): the maximal runs of characters that are not white space,
\* from position i on
RECURSIVE Tokens(_, _)
Tokens(text, i) ==
    LET starts == {k \in i..Len(text) : ~IsSpace(text[k])} IN
    IF starts = {} THEN <<>>
    ELSE LET a == Min(starts)
             b == Max({k \in a..Len(text) :
                          \A j \in a..k : ~IsSpace(text[j])}) IN
         <<SubSeq(text, a, b)>> \o Tokens(text, b + 1)

Http == <<"h", "t", "t", "p", ":", "/", "/">>

Https == <<"h", "t", "t", "p", "s", ":", "/", "/">>

\* the token is an http or https URL: a scheme, then at least one character
IsUrl(tok) ==
    \/ Len(tok) > Len(Http) /\ StartsWithAt(tok, 1, Http)
    \/ Len(tok) > Len(Https) /\ StartsWithAt(tok, 1, Https)

\* the token holds no http or https scheme with a character after it
NoScheme(tok) ==
    \A i \in 1..Len(tok) :
        /\ ~(StartsWithAt(tok, i, Http) /\ i + Len(Http) <= Len(tok))
        /\ ~(StartsWithAt(tok, i, Https) /\ i + Len(Https) <= Len(tok))

\* the text is URLs and tokens without a scheme, separated by white space
UrlsAndPlainTokens(text) ==
    \A k \in 1..Len(Tokens(text, 1)) :
        IsUrl(Tokens(text, 1)[k]) \/ NoScheme(Tokens(text, 1)[k])

\* C19: for a text of white-space-separated tokens that are URLs or hold no
\* scheme, extract_links returns the URL tokens, all of them and nothing
\* else, in the order of the text, a repeated URL as often as it appears.
C19_LinksAreTheUrlTokens ==
    call.pc = "returned" /\ UrlsAndPlainTokens(call.text)
        => call.result = SelectSeq(Tokens(call.text, 1), IsUrl)

\* extract_links has returned the same URL twice for a text that holds it
\* twice around a token without a scheme
C19_Witness ==
    /\ call.pc = "returned"
    /\ call.text = <<"h", "t", "t", "p", ":", "/", "/", "a", " ", "a", "\n",
                     "h", "t", "t", "p", ":", "/", "/", "a">>
    /\ call.result = <<SubSeq(call.text, 1, 8), SubSeq(call.text, 1, 8)>>

---------------------------------------------------------------------------
(* Claims about get_primary_deadline, under SpecDeadline *)

\* the candidates strictly after now
Survivors ==
    {k \in 1..Len(call.dates) : call.dates[k].parsed_date.t > call.now[1].t}

\* the value returned is nothing when no candidate is strictly after now,
\* and otherwise the instant of the first survivor of highest confidence
SelectionRule ==
    call.pc = "returned" /\ call.dates # <<>> =>
        IF Survivors = {} THEN call.result = None
        ELSE \E k \in Survivors :
                /\ call.result = <<call.dates[k].parsed_date>>
                /\ call.result[1].t > call.now[1].t
                /\ \A j \in Survivors :
                      /\ call.dates[j].confidence <= call.dates[k].confidence
                      /\ call.dates[j].confidence = call.dates[k].confidence
                            => k <= j

\* C20: get_primary_deadline returns, for every list of dates, either
\* nothing or an instant strictly after the current time: candidates not
\* strictly in the future are discarded whatever their confidence, the
\* survivor of highest confidence is returned, the first one on a tie, and
\* nothing when there is no survivor.
C20_FutureDateOfHighestConfidence ==
    /\ call.pc # "raised"
    /\ call.pc = "returned" /\ call.dates = <<>> => call.result = None
    /\ SelectionRule

---------------------------------------------------------------------------
(* Claims about extract_action_items, under SpecActions *)

\* heuristic (a): the line, trimmed, has at least 10 characters and starts
\* with a vocabulary verb followed by a space or a colon
MatchesA(line) ==
    LET l == lower(Strip(line)) IN
    /\ Len(l) >= MinLineLen
    /\ \E k \in 1..Len(ACTION_VERBS) :
          \/ startswith(l, ACTION_VERBS[k] \o <<" ">>)
          \/ startswith(l, ACTION_VERBS[k] \o <<":">>)

\* every line of the text matches heuristic (a), and there are more lines
\* than items kept
MoreLinesThanCap ==
    /\ Len(call.lines) > ActionCap
    /\ \A k \in 1..Len(call.lines) : MatchesA(call.lines[k])

\* the result is in non-increasing confidence order, all of verb_start
SortedVerbStart ==
    /\ \A i, j \in 1..Len(call.result) :
          i < j => call.result[i].confidence >= call.result[j].confidence
    /\ \A i \in 1..Len(call.result) : call.result[i].method = "verb_start"

\* the trimmed lines of the text
DistinctLines == {Strip(call.lines[k]) : k \in 1..Len(call.lines)}

\* C21 as stated: a text of more lines than the cap, each matching
\* heuristic (a), gives exactly as many items as the cap, in non-increasing
\* confidence order, all with method verb_start.
C21_ExactlyCapItems ==
    call.pc = "returned" /\ MoreLinesThanCap
        => Len(call.result) = ActionCap /\ SortedVerbStart

\* C21 amended: a text of more lines than the cap, each matching heuristic
\* (a), gives one item per distinct trimmed line up to the cap: exactly as
\* many items as the cap only when at least that many lines differ, fewer
\* when lines repeat. The items are the first occurrences of the first
\* distinct lines in text order, in non-increasing confidence order, all
\* with method verb_start.
C21_CapOrDistinctLines ==
    call.pc = "returned" /\ MoreLinesThanCap
        => /\ Len(call.result) = Min({ActionCap, Cardinality(DistinctLines)})
           /\ SortedVerbStart
           /\ \A i \in 1..Len(call.result) :
                 LET n == call.result[i].line_number IN
                 /\ call.result[i].text = Strip(call.lines[n])
                 /\ \A m \in 1..(n - 1) : Strip(call.lines[m]) # Strip(call.lines[n])
                 /\ i > 1 => call.result[i - 1].line_number < n

\* a text of more distinct lines than the cap, each matching (a), has been
\* cut to the cap
C21_Witness ==
    /\ call.pc = "returned" /\ MoreLinesThanCap
    /\ Cardinality(DistinctLines) > ActionCap
    /\ Len(call.result) = ActionCap
    /\ call.result[1].line_number = 1

\* the line, trimmed, has at least 10 characters, starts with 'please ' and
\* contains a vocabulary verb
PleaseLine(line) ==
    LET l == lower(Strip(line)) IN
    /\ Len(l) >= MinLineLen
    /\ startswith(l, <<"p", "l", "e", "a", "s", "e", " ">>)
    /\ \E k \in 1..Len(ACTION_VERBS) : contains(l, ACTION_VERBS[k])

\* C22: in a text short enough for nothing to be cut, every line of at
\* least 10 characters that starts with 'please ' and contains a vocabulary
\* verb has an item in the result of extract_action_items with method
\* please_verb and confidence 0.8.
C22_PleaseLineGivesPleaseVerb ==
    call.pc = "returned" /\ Len(call.lines) <= ActionCap
        => \A k \in 1..Len(call.lines) :
              PleaseLine(call.lines[k])
                 => \E i \in 1..Len(call.result) :
                       /\ call.result[i].text = Strip(call.lines[k])
                       /\ call.result[i].method = "please_verb"
                       /\ call.result[i].confidence = 8

---------------------------------------------------------------------------
(* Claims about extract_dates, under SpecDates *)

\* the positions, in the merged candidates, of the first occurrence of
\* each text
FirstOccurrences ==
    {k \in 1..Len(call.dates) :
        \A j \in 1..(k - 1) : call.dates[j].text # call.dates[k].text}

\* C23: extract_dates returns the candidates of the three passes merged in
\* pass order, reduced to the first occurrence of each text, stably sorted
\* by descending confidence and cut to the first 5: at most 5 entries, no
\* two with the same text, none of lower confidence before one of higher,
\* and among the first occurrences none is left out in favour of one it
\* precedes in that order.
C23_FirstOccurrencesSortedAndCut ==
    call.pc = "returned" /\ ~call.empty =>
        LET r == call.result IN
        /\ Len(r) = Min({DateCap, Cardinality(FirstOccurrences)})
        /\ \A i, j \in 1..Len(r) : i < j => r[i].text # r[j].text
        /\ \A i, j \in 1..Len(r) : i < j => r[i].confidence >= r[j].confidence
        /\ \E f \in [1..Len(r) -> FirstOccurrences] :
              /\ \A i \in 1..Len(r) : r[i] = call.dates[f[i]]
              /\ \A i, j \in 1..Len(r) :
                    i < j /\ r[i].confidence = r[j].confidence => f[i] < f[j]
              /\ \A k \in FirstOccurrences :
                    (\A i \in 1..Len(r) : f[i] # k)
                       => \A i \in 1..Len(r) :
                             \/ r[i].confidence > call.dates[k].confidence
                             \/ r[i].confidence = call.dates[k].confidence
                                   /\ f[i] < k

\* more candidates of different texts than are kept were found, two of them
\* in one pass, one text twice; the result has been cut and a pattern match
\* stands before the whole-text candidate found first
C23_Witness ==
    /\ call.pc = "returned"
    /\ Len(call.dates) > Cardinality(FirstOccurrences)
    /\ Cardinality(FirstOccurrences) > DateCap
    /\ Len(call.result) = DateCap
    /\ call.dates[1].confidence = 8
    /\ call.result[1].confidence = 9
    /\ call.result[2].confidence = 9

---------------------------------------------------------------------------
(* Claims about the cuts of chunk_text, under SpecChunk and SpecChunkAny *)

\* C24: for a text longer than max_chars, every window is cut at its last
\* period when that period lies past the midpoint of the window, and at the
\* end of the window when the last period lies at or before the midpoint or
\* the window has no period.
C24_CutAtPeriodOnlyPastMidpoint ==
    call.fn = "chunk_text" /\ Len(call.text) > call.max_chars =>
        \A k \in 1..Len(call.cuts) :
            LET c == call.cuts[k]
                last_period == rfind(Slice(call.text, c.start, c.window_end), ".")
            IN
            c.end = IF last_period # -1
                       /\ 2 * (last_period + 1) > c.window_end - c.start
                    THEN c.start + last_period + 1
                    ELSE c.window_end

\* every iteration of the loop so far advanced start by at least one
\* character, the slices are consecutive from the first character of the
\* stripped text, and at the return they reach its last character and every
\* returned chunk is not empty and has at most max_chars characters
AdvancesAndCovers ==
    /\ \A k \in 1..Len(call.cuts) : call.cuts[k].end > call.cuts[k].start
    /\ \A k \in 1..Len(call.cuts) :
          call.cuts[k].start = (IF k = 1 THEN 0 ELSE call.cuts[k - 1].end)
    /\ call.pc = "done" /\ call.cuts # <<>>
          => call.cuts[Len(call.cuts)].end = Len(call.text)
    /\ call.pc = "done" /\ Strip(call.arg) # <<>>
          => \A k \in 1..Len(call.result) :
                /\ call.result[k] # <<>>
                /\ Len(call.result[k]) <= call.max_chars

\* C26: chunk_text terminates on every input text: every iteration of the
\* loop advances start by at least one character, every returned chunk is
\* not empty (for a text that is not blank) and has at most max_chars
\* characters, and the untrimmed slices are consecutive and cover the
\* stripped text from its first to its last character.
C26_TerminatesAndCovers ==
    /\ []AdvancesAndCovers
    /\ <>(call.pc = "done")

\* chunk_text has returned after three iterations, one of which cut a slice
\* of blanks that is not among the returned chunks
C26_Witness ==
    /\ call.fn = "chunk_text" /\ call.pc = "done"
    /\ Len(call.cuts) = 3
    /\ Len(call.result) = 2

---------------------------------------------------------------------------
(* Claims about the further pass of summarize, under SpecSummarize *)

\* the summaries joined by line breaks
JoinedSummaries ==
    Concat([j \in 1..Len(call.summaries) |->
               IF j = 1 THEN call.summaries[j]
               ELSE <<"\n">> \o call.summaries[j]])

\* C25: summarize makes exactly one more engine call, over the summaries
\* joined by line breaks, when there was more than one chunk and the joined
\* text is longer than the limit, and no further call otherwise; when that
\* call fails the result is the first max_length characters of the joined
\* text.
C25_OneFurtherPassWhenLong ==
    call.pc = "done" /\ call.arg # <<>> =>
        LET long == Len(call.chunks) > 1 /\ Len(JoinedSummaries) > CombinedLimit IN
        /\ Len(call.piped) = Len(call.chunks) + (IF long THEN 1 ELSE 0)
        /\ call.again = long
        /\ long => call.piped[Len(call.piped)] = JoinedSummaries
        /\ ~long => call.result = JoinedSummaries /\ ~call.again_raised
        /\ call.again_raised
              => call.result = SubSeq(JoinedSummaries, 1,
                                      Min({call.max_length, Len(JoinedSummaries)}))

\* the further pass over a joined text longer than max_length has failed and
\* summarize has returned
C25_Witness ==
    /\ call.pc = "done" /\ call.again_raised
    /\ Len(call.chunks) > 1
    /\ Len(call.combined) > call.max_length
    /\ Len(call.result) = call.max_length

---------------------------------------------------------------------------
(* Claims about the counters and the sink calls of main(), under Spec,
   SpecResume and SpecConcurrent *)

\* the rows the run of process p has inserted: the run stamps its records
\* with its own reading of the clock
InsertedBy(p) == {k \in 1..Len(store) : store[k].processed_at = NowOf(p)}

\* C27: at the end of every live run the newly-processed count equals the
\* number of records the run inserted into the store, whatever the batch and
\* whichever steps failed, a sink call or a write-back of the reference
\* after the save included.
C27_ProcessedCountIsInsertCount ==
    \A p \in Procs :
        proc[p].pc = "done" /\ ~proc[p].dry_run
            => proc[p].processed_count = Cardinality(InsertedBy(p))

\* C28: over any sequence of sequential live runs on overlapping batches,
\* runs stopped at any step and runs in which the save or the sink fails
\* included, create_email_page is called at most once per message_id, and
\* the sink holds at most one page per message_id.
C28_SinkCalledAtMostOnce ==
    \A m \in MsgIds :
        /\ sinkCalls[m] <= 1
        /\ Cardinality({j \in 1..Len(pages) : pages[j].message_id = m}) <= 1

\* a second live run with a Notion writer has gone through a batch holding a
\* message for which an earlier run called the sink, and has skipped it
C28_Witness ==
    \E p \in Procs :
        LET l == proc[p] IN
        /\ l.run = 2 /\ l.pc = "done"
        /\ ~l.dry_run /\ l.notion_writer
        /\ \E k \in l.dup :
              /\ sinkCalls[l.emails[k].message_id] = 1
              /\ store[Min(RowsOf(store, l.emails[k].message_id))].processed_at
                    # NowOf(p)

\* the pages the sink holds for message m
PagesOf(m) == {j \in 1..Len(pages) : pages[j].message_id = m}

\* no run is under way
AllRunsOver == \A p \in Procs : proc[p].pc \in {"idle", "done", "aborted"}

\* C29: when two live runs interleave on the same message_id, at most one
\* sink page is created for it, so that no second page is left without a
\* reference to it, and once both runs are over the reference stored for it
\* is the id of a page that exists.
C29_OnePagePerMessageUnderRace ==
    \A m \in MsgIds :
        /\ Cardinality(PagesOf(m)) <= 1
        /\ AllRunsOver /\ get_notion_page_id(store, m) # None
              => \E j \in PagesOf(m) : pages[j].id = get_notion_page_id(store, m)

\* process p is in a live second run over the batch of a live first run in
\* which no step failed
CleanRerun(p) ==
    /\ proc[p].base # None
    /\ ~proc[p].base[1].dry_run
    /\ ~proc[p].base[1].failed

\* C30: a second live run over the same batch, after a first live run in
\* which no step failed, inserts no record, makes no sink call, changes no
\* stored field, counts no message as newly processed, and at its end has
\* counted every message that has a message_id as skipped; it reports the
\* counts unless the batch is empty, when main() returns before the loop.
C30_RerunChangesNothing ==
    \A p \in Procs :
        CleanRerun(p) =>
            LET l == proc[p] IN
            /\ store = l.base[1].store
            /\ inserts = l.base[1].inserts
            /\ sinkCalls = l.base[1].sinkCalls
            /\ l.processed_count = 0
            /\ l.notion_count = 0
            /\ l.pc = "done"
                  => /\ l.emails # <<>>
                           => {"skipped", "processed"} \subseteq l.reported
                     /\ l.skipped_count
                           = Cardinality({k \in 1..Len(l.emails) :
                                             l.emails[k].message_id # None})

\* a second live run with a Notion writer has reported after a clean first
\* live run that saved a message and called the sink for it, over a batch
\* that also holds a message without message_id
C30_Witness ==
    \E p \in Procs :
        LET l == proc[p] IN
        /\ CleanRerun(p) /\ l.pc = "done" /\ l.notion_writer
        /\ Len(store) = 1
        /\ \E m \in MsgIds : sinkCalls[m] = 1
        /\ \E k \in 1..Len(l.emails) : l.emails[k].message_id = None
        /\ l.skipped_count = 1
        /\ "skipped" \in l.reported

====
